---- MODULE Spec2Model ----
(***************************************************************************)
(* Maze generation and solving engine of a_maze_ing: the bitmask wall      *)
(* model, carving, randomized DFS generation, the extra-connectivity pass  *)
(* and the BFS shortest-path solver, as one state machine that follows the *)
(* pipeline of get_state (src/a_maze_ing.py).                              *)
(***************************************************************************)
EXTENDS Integers, Sequences, FiniteSets, TLC

(***************************************************************************)
(* Bounds of the model.                                                    *)
(***************************************************************************)
\* largest width * height of the exhaustively explored mazes
MaxArea == 6
\* largest forbidden set a caller forces on those mazes
MaxForbidden == 2
\* length of the one-row / one-column mazes that reach an area of 50 cells
CorridorLen == 50
\* number of times the UI loop calls get_state
MaxRuns == 2
\* largest width, height and coordinate handed to the Maze constructor
MaxSide == 3
\* largest width and height of the mazes handed to the stencil marker, and
\* the number of rings of cells around the box of the stamp from which
\* their entry and exit are taken
MaxStencilWidth == 16
MaxStencilHeight == 14
StencilRing == 0
\* number of seeds tried on each maze that is large enough for the stencil
MaxSeeds == 1
\* largest width * height of the mazes handed to the validators
MaxValidatedArea == 4
\* largest width * height of the grids of arbitrary masks (beside 2 x 2)
MaxAnyGridArea == 3
\* largest width and height of the mazes, and longest path string, handed
\* to the output writer by a caller of its own
MaxWrittenSide == 2
MaxPathLen == 2
\* largest number written in the WIDTH, HEIGHT, ENTRY and EXIT lines of the
\* configuration files
MaxConfigNumber == 2

\* the largest number of cells of a maze whose generation is followed to
\* its end under fairness
MaxDfsArea == 5

VARIABLES
    width, height, entry, exit,   \* Maze fields
    grid,                         \* Maze.grid, a mask per coordinate <<x, y>>
    forbidden_cells,              \* the forbidden set handed to every stage
    perfect,                      \* cfg.perfect
    stream, draws,                \* the random module: values of the stream
                                  \* of cfg.seed read so far, read position
    pc,                           \* position of get_state
    stack, visited,               \* DFS locals
    candidate_cells, extra_paths, paths,   \* multiple_path_maze locals
    solved,                       \* outcome of bfs_shortest_path_solver
    path_str,                     \* direction string of get_state
    call,                         \* the last call made on the maze from
                                  \* outside the pipeline, and its outcome
    output_file,                  \* the lines of the file cfg.output_file
    raised,                       \* the exception that left get_state
    run,                          \* number of the current get_state call
    dfs_grid, pass_start, opened, \* this run: grid after DFS, grid at the
                                  \* start of the pass, pairs the pass carved
    first_dfs, first_final        \* first run: grid after DFS, finished grid

vars == <<width, height, entry, exit, grid, forbidden_cells, perfect,
          stream, draws, pc, stack, visited, candidate_cells, extra_paths,
          paths, solved, path_str, call, output_file, raised, run, dfs_grid,
          pass_start, opened, first_dfs, first_final>>

(***************************************************************************)
(* Direction table (maze_files/direction_definitions.py).                  *)
(***************************************************************************)
DIRECTIONS == <<"N", "E", "S", "W">>

DIR_BIT_VALUE == [N |-> 1, E |-> 2, S |-> 4, W |-> 8]

\* every direction its own opposite
DIR_OPPOSITE_same == [N |-> "N", E |-> "E", S |-> "S", W |-> "W"]

DIR_OPPOSITE == [N |-> "S", E |-> "W", S |-> "N", W |-> "E"]

DIR_MOVE_DELTA == [N |-> <<0, -1>>, E |-> <<1, 0>>, S |-> <<0, 1>>,
                   W |-> <<-1, 0>>]

(***************************************************************************)
(* Wall operations (maze_files/wall_operations.py).  direction is a single *)
(* bit, so cell & direction is that bit of the mask.                       *)
(***************************************************************************)
\* cell | direction in place of cell & direction: never 0
is_it_solid_wall_or(cell, direction) == TRUE

is_it_solid_wall(cell, direction) == (cell \div direction) % 2 # 0

\* cell ^ direction in place of cell & ~direction
remove_a_wall_toggle(cell, direction) ==
    IF (cell \div direction) % 2 # 0 THEN cell - direction
    ELSE cell + direction

\* cell & direction in place of cell & ~direction
remove_a_wall_and(cell, direction) ==
    IF (cell \div direction) % 2 # 0 THEN direction ELSE 0

\* cell - direction in place of cell & ~direction
remove_a_wall_minus(cell, direction) == cell - direction

remove_a_wall(cell, direction) ==
    IF (cell \div direction) % 2 # 0 THEN cell - direction ELSE cell

add_a_wall(cell, direction) ==
    IF (cell \div direction) % 2 # 0 THEN cell ELSE cell + direction

(***************************************************************************)
(* Grid model (maze_files/maze_definitions.py).                            *)
(***************************************************************************)
Cells(w, h) == (0 .. w - 1) \X (0 .. h - 1)

is_in_bounds(w, h, coord) ==
    /\ ~ (coord[1] < 0)
    /\ ~ (coord[1] >= w)
    /\ ~ (coord[2] < 0)
    /\ ~ (coord[2] >= h)

FreshGrid(w, h) == [c \in Cells(w, h) |-> 15]

Abs(n) == IF n < 0 THEN -n ELSE n

\* a constructor without the test of lines 57-59
Maze_same_endpoints(h, w, en, ex) ==
    IF w <= 0 \/ h <= 0
    THEN [err |-> "InvalidDimension", rows |-> <<>>]
    ELSE IF ~ is_in_bounds(w, h, en) \/ ~ is_in_bounds(w, h, ex)
    THEN [err |-> "OutOfBounds", rows |-> <<>>]
    ELSE [err |-> "none", rows |-> [y \in 1 .. h |-> [x \in 1 .. w |-> 15]]]

\* Maze(height, width, entry, exit): the ValueError it raises, or the list
\* of rows it builds (lines 64-67)
Maze(h, w, en, ex) ==
    IF w <= 0 THEN [err |-> "InvalidDimension", rows |-> <<>>]
    ELSE IF h <= 0 THEN [err |-> "InvalidDimension", rows |-> <<>>]
    ELSE IF ~ is_in_bounds(w, h, en)
    THEN [err |-> "OutOfBounds", rows |-> <<>>]
    ELSE IF ~ is_in_bounds(w, h, ex)
    THEN [err |-> "OutOfBounds", rows |-> <<>>]
    ELSE IF en = ex THEN [err |-> "DegenerateEndpoints", rows |-> <<>>]
    ELSE [err |-> "none", rows |-> [y \in 1 .. h |-> [x \in 1 .. w |-> 15]]]

\* the masks of a list of rows by coordinate: grid[y][x] for <<x, y>>
GridOf(rows) ==
    [c \in Cells(IF Len(rows) = 0 THEN 0 ELSE Len(rows[1]), Len(rows)) |->
        rows[c[2] + 1][c[1] + 1]]

\* a carve that updates the second cell only
carve_coordinate_one_side(g, w, h, coord1, coord2) ==
    IF ~ is_in_bounds(w, h, coord1) \/ ~ is_in_bounds(w, h, coord2)
    THEN [err |-> "OutOfBounds", grid |-> g]
    ELSE IF Abs(coord1[1] - coord2[1]) + Abs(coord1[2] - coord2[2]) # 1
    THEN [err |-> "NotAdjacent", grid |-> g]
    ELSE LET direction ==
                 IF coord2[1] = coord1[1] + 1 /\ coord2[2] = coord1[2] THEN "E"
                 ELSE IF coord2[1] = coord1[1] - 1 /\ coord2[2] = coord1[2]
                 THEN "W"
                 ELSE IF coord2[2] = coord1[2] - 1 /\ coord1[1] = coord2[1]
                 THEN "N"
                 ELSE "S"
         IN [err |-> "none",
             grid |-> [g EXCEPT ![coord2] =
                          remove_a_wall(g[coord2],
                              DIR_BIT_VALUE[DIR_OPPOSITE[direction]])]]

\* a carve that validates coord2 after it has updated the cell of coord1
carve_coordinate_late_validation(g, w, h, coord1, coord2) ==
    IF ~ is_in_bounds(w, h, coord1)
    THEN [err |-> "OutOfBounds", grid |-> g]
    ELSE IF Abs(coord1[1] - coord2[1]) + Abs(coord1[2] - coord2[2]) # 1
    THEN [err |-> "NotAdjacent", grid |-> g]
    ELSE LET direction ==
                 IF coord2[1] = coord1[1] + 1 /\ coord2[2] = coord1[2] THEN "E"
                 ELSE IF coord2[1] = coord1[1] - 1 /\ coord2[2] = coord1[2]
                 THEN "W"
                 ELSE IF coord2[2] = coord1[2] - 1 /\ coord1[1] = coord2[1]
                 THEN "N"
                 ELSE "S"
             half == [g EXCEPT ![coord1] =
                         remove_a_wall(g[coord1], DIR_BIT_VALUE[direction])]
         IN IF ~ is_in_bounds(w, h, coord2)
            THEN [err |-> "OutOfBounds", grid |-> half]
            ELSE [err |-> "none",
                  grid |-> [half EXCEPT ![coord2] =
                               remove_a_wall(g[coord2],
                                   DIR_BIT_VALUE[DIR_OPPOSITE[direction]])]]

\* carve_coordinate: the new grid, or the error it raises with the grid as
\* it was
carve_coordinate(g, w, h, coord1, coord2) ==
    IF ~ is_in_bounds(w, h, coord1) \/ ~ is_in_bounds(w, h, coord2)
    THEN [err |-> "OutOfBounds", grid |-> g]
    ELSE IF Abs(coord1[1] - coord2[1]) + Abs(coord1[2] - coord2[2]) # 1
    THEN [err |-> "NotAdjacent", grid |-> g]
    ELSE LET direction ==
                 IF coord2[1] = coord1[1] + 1 /\ coord2[2] = coord1[2] THEN "E"
                 ELSE IF coord2[1] = coord1[1] - 1 /\ coord2[2] = coord1[2]
                 THEN "W"
                 ELSE IF coord2[2] = coord1[2] - 1 /\ coord1[1] = coord2[1]
                 THEN "N"
                 ELSE "S"
             new_cell_A_bitmask ==
                 remove_a_wall(g[coord1], DIR_BIT_VALUE[direction])
             new_cell_B_bitmask ==
                 remove_a_wall(g[coord2],
                               DIR_BIT_VALUE[DIR_OPPOSITE[direction]])
         IN [err |-> "none",
             grid |-> [g EXCEPT ![coord1] = new_cell_A_bitmask,
                                ![coord2] = new_cell_B_bitmask]]

(***************************************************************************)
(* Sequence helpers.                                                       *)
(***************************************************************************)
Reverse(s) == [i \in 1 .. Len(s) |-> s[Len(s) + 1 - i]]

RECURSIVE SelectTuple(_, _)
\* the members of sequence s that are in set ok, in the order of s
SelectTuple(s, ok) ==
    IF s = <<>> THEN <<>>
    ELSE IF Head(s) \in ok THEN <<Head(s)>> \o SelectTuple(Tail(s), ok)
    ELSE SelectTuple(Tail(s), ok)

\* list.remove(v): s without its first element equal to v
RemoveFirst(s, v) ==
    LET i == CHOOSE k \in 1 .. Len(s) :
                 s[k] = v /\ \A j \in 1 .. k - 1 : s[j] # v
    IN SubSeq(s, 1, i - 1) \o SubSeq(s, i + 1, Len(s))

Range(s) == {s[i] : i \in 1 .. Len(s)}

Step(coord, direction) ==
    <<coord[1] + DIR_MOVE_DELTA[direction][1],
      coord[2] + DIR_MOVE_DELTA[direction][2]>>

\* stands for Python's None where a coordinate is expected
NoCoord == <<-1, -1>>

(***************************************************************************)
(* The random module.  random.seed(cfg.seed) starts the one stream of      *)
(* values that belongs to the seed of the configuration, whatever that     *)
(* seed is; stream holds the values of it read so far and draws the read   *)
(* position.  A value never read before can be any value, a value read     *)
(* again after seeding again is the value read the first time.             *)
(***************************************************************************)
\* the results a draw below n can give
RandBelow(n) ==
    IF draws < Len(stream) THEN {stream[draws + 1] % n} ELSE 0 .. n - 1

\* the stream after a draw that gave r
StreamAfter(r) == IF draws < Len(stream) THEN stream ELSE Append(stream, r)

\* random.randint(a, b) of multiple_path_maze, from the unseeded stream
randint_unseeded(a, b) == a .. b

\* random.randint(a, b) of multiple_path_maze
randint(a, b) == {a + r : r \in RandBelow(b - a + 1)}

(***************************************************************************)
(* Shortest-path solver (maze_files/bfs_shortest_path_solver.py).          *)
(* path_family_tree is a function from the cells reached to their parents. *)
(***************************************************************************)
\* deque.pop(): the last element, as a LIFO stack would give it
popright(queue) ==
    [item |-> queue[Len(queue)], rest |-> SubSeq(queue, 1, Len(queue) - 1)]

\* deque.popleft(): the first element and the queue without it
popleft(queue) == [item |-> Head(queue), rest |-> Tail(queue)]

\* admission of a neighbour without the forbidden test
bfs_admit_any(w, h, forb, mask, direction, neighbor, seen) ==
    /\ 0 <= neighbor[1] /\ neighbor[1] < w
    /\ 0 <= neighbor[2] /\ neighbor[2] < h
    /\ is_it_solid_wall(mask, DIR_BIT_VALUE[direction]) = FALSE
    /\ neighbor \notin seen

\* the tests a neighbour passes to be enqueued (lines 74-85)
bfs_admit(w, h, forb, mask, direction, neighbor, seen) ==
    /\ 0 <= neighbor[1] /\ neighbor[1] < w
    /\ 0 <= neighbor[2] /\ neighbor[2] < h
    /\ is_it_solid_wall(mask, DIR_BIT_VALUE[direction]) = FALSE
    /\ neighbor \notin seen
    /\ neighbor \notin forb

RECURSIVE bfs_expand(_, _, _, _, _, _, _)
\* the for loop over DIRECTIONS of one dequeued cell, from direction i on:
\* the queue, visited set and parent map it leaves
bfs_expand(g, w, h, forb, current_coord, i, st) ==
    IF i > Len(DIRECTIONS) THEN st
    ELSE LET direction == DIRECTIONS[i]
             neighbor == Step(current_coord, direction)
         IN bfs_expand(g, w, h, forb, current_coord, i + 1,
                IF bfs_admit(w, h, forb, g[current_coord], direction,
                             neighbor, st.visited_coords)
                THEN [visited_coords |-> st.visited_coords \cup {neighbor},
                      coords_to_visit |-> Append(st.coords_to_visit, neighbor),
                      path_family_tree |->
                          st.path_family_tree @@ (neighbor :> current_coord)]
                ELSE st)

RECURSIVE bfs_iterate(_, _, _, _, _, _, _)
\* at most n iterations of the while loop (lines 58-88), the first half of
\* them before the second; once the exit is dequeued the loop is left
\* (line 65), which the emptied queue stands for
bfs_iterate(g, w, h, ex, forb, st, n) ==
    IF n <= 0 \/ Len(st.coords_to_visit) = 0 THEN st
    ELSE IF n = 1
    THEN LET current_coord == popleft(st.coords_to_visit).item
             popped == [st EXCEPT
                           !.coords_to_visit = popleft(st.coords_to_visit).rest]
         IN IF current_coord = ex
            THEN [popped EXCEPT !.coords_to_visit = <<>>]
            ELSE bfs_expand(g, w, h, forb, current_coord, 1, popped)
    ELSE LET half == bfs_iterate(g, w, h, ex, forb, st, n \div 2)
         IN bfs_iterate(g, w, h, ex, forb, half, n - (n \div 2))

\* the while loop: the parent map when the queue is empty or the exit is
\* dequeued.  Every cell is enqueued once at most, so the loop has ended
\* after w * h iterations.
bfs_loop(g, w, h, ex, forb, st) ==
    bfs_iterate(g, w, h, ex, forb, st, w * h).path_family_tree

RECURSIVE bfs_backtrace_steps(_, _, _)
\* at most n iterations of the backtrace loop (lines 96-100) from at.spot
\* on, the first half of them before the second
bfs_backtrace_steps(tree, at, n) ==
    IF n <= 0 \/ at.spot = NoCoord THEN at
    ELSE IF n = 1
    THEN [backtrace |-> Append(at.backtrace, at.spot), spot |-> tree[at.spot]]
    ELSE bfs_backtrace_steps(tree, bfs_backtrace_steps(tree, at, n \div 2),
                             n - (n \div 2))

\* the parent links from last_spot back to the entry, exit first
bfs_backtrace(tree, last_spot) ==
    bfs_backtrace_steps(tree, [backtrace |-> <<>>, spot |-> last_spot],
                        Cardinality(DOMAIN tree)).backtrace

\* the solver without the final reversal
bfs_shortest_path_solver_unreversed(g, w, h, en, ex, forb) ==
    LET tree == bfs_loop(g, w, h, ex, forb,
                    [visited_coords |-> {en},
                     coords_to_visit |-> <<en>>,
                     path_family_tree |-> (en :> NoCoord)])
    IN IF ex \notin DOMAIN tree
       THEN [status |-> "Unreachable", path |-> <<>>]
       ELSE [status |-> "path", path |-> bfs_backtrace(tree, ex)]

\* bfs_shortest_path_solver: the path it returns, or the ValueError it raises
bfs_shortest_path_solver(g, w, h, en, ex, forb) ==
    LET tree == bfs_loop(g, w, h, ex, forb,
                    [visited_coords |-> {en},
                     coords_to_visit |-> <<en>>,
                     path_family_tree |-> (en :> NoCoord)])
    IN IF ex \notin DOMAIN tree
       THEN [status |-> "Unreachable", path |-> <<>>]
       ELSE [status |-> "path", path |-> Reverse(bfs_backtrace(tree, ex))]

(***************************************************************************)
(* Structural validators (validators.py).  Each result tells the           *)
(* ValueError raised, if any, the place of the first fault found, and the  *)
(* grid of the maze after the call.                                        *)
(***************************************************************************)
\* a check that reports a closed wall facing an open one, and not an open
\* wall facing a closed one
shared_wall_mismatch_one_way(g, x, y, direction, neg_x, neg_y, opposite) ==
    /\ is_it_solid_wall(g[<<x, y>>], DIR_BIT_VALUE[direction])
    /\ ~ is_it_solid_wall(g[<<neg_x, neg_y>>], DIR_BIT_VALUE[opposite])

\* check_shared_wall: the two facing walls differ
shared_wall_mismatch(g, x, y, direction, neg_x, neg_y, opposite) ==
    is_it_solid_wall(g[<<x, y>>], DIR_BIT_VALUE[direction])
       # is_it_solid_wall(g[<<neg_x, neg_y>>], DIR_BIT_VALUE[opposite])

\* the cells, numbered row by row, at which the loop of lines 70-79 raises
wall_mismatch_cells(g, w, h) ==
    {k \in 0 .. w * h - 1 :
        LET x == k % w
            y == k \div w
        IN \/ x + 1 < w /\ shared_wall_mismatch(g, x, y, "E", x + 1, y, "W")
           \/ y + 1 < h /\ shared_wall_mismatch(g, x, y, "S", x, y + 1, "N")}

\* the least number of a set of numbers
Least(ks) == CHOOSE k \in ks : \A j \in ks : k <= j

\* a validator that closes both sides of every wall it finds mismatched
wall_validator_repairing(g, w, h) ==
    [err |-> "none", at |-> NoCoord,
     grid |-> [c \in DOMAIN g |->
                  LET east == c[1] + 1 < w
                                 /\ shared_wall_mismatch(g, c[1], c[2], "E",
                                                         c[1] + 1, c[2], "W")
                      south == c[2] + 1 < h
                                  /\ shared_wall_mismatch(g, c[1], c[2], "S",
                                                          c[1], c[2] + 1, "N")
                      west == c[1] > 0
                                 /\ shared_wall_mismatch(g, c[1] - 1, c[2], "E",
                                                         c[1], c[2], "W")
                      north == c[2] > 0
                                  /\ shared_wall_mismatch(g, c[1], c[2] - 1,
                                                          "S", c[1], c[2], "N")
                      m1 == IF north THEN add_a_wall(g[c], 1) ELSE g[c]
                      m2 == IF east THEN add_a_wall(m1, 2) ELSE m1
                      m3 == IF south THEN add_a_wall(m2, 4) ELSE m2
                  IN IF west THEN add_a_wall(m3, 8) ELSE m3]]

\* wall_validator: it raises at the first cell, row by row, with a
\* mismatched East or South wall, and writes nothing to the maze
wall_validator(g, w, h) ==
    LET bad == wall_mismatch_cells(g, w, h)
    IN IF bad = {} THEN [err |-> "none", at |-> NoCoord, grid |-> g]
       ELSE [err |-> "WallMismatch",
             at |-> <<Least(bad) % w, Least(bad) \div w>>,
             grid |-> g]

\* a validator that scans the two rows before the two columns
closed_borders_validator_rows_first(g, w, h) ==
    LET top == {x \in 0 .. w - 1 : is_it_solid_wall(g[<<x, 0>>], 1) = FALSE}
        left == {y \in 0 .. h - 1 : is_it_solid_wall(g[<<0, y>>], 8) = FALSE}
        bottom == {x \in 0 .. w - 1 :
                      is_it_solid_wall(g[<<x, h - 1>>], 4) = FALSE}
        right == {y \in 0 .. h - 1 :
                     is_it_solid_wall(g[<<w - 1, y>>], 2) = FALSE}
    IN IF top # {}
       THEN [err |-> "OpenBorderWall", direction |-> "N",
             at |-> <<Least(top), 0>>, grid |-> g]
       ELSE IF bottom # {}
       THEN [err |-> "OpenBorderWall", direction |-> "S",
             at |-> <<Least(bottom), h - 1>>, grid |-> g]
       ELSE IF left # {}
       THEN [err |-> "OpenBorderWall", direction |-> "W",
             at |-> <<0, Least(left)>>, grid |-> g]
       ELSE IF right # {}
       THEN [err |-> "OpenBorderWall", direction |-> "E",
             at |-> <<w - 1, Least(right)>>, grid |-> g]
       ELSE [err |-> "none", direction |-> "none", at |-> NoCoord,
             grid |-> g]

\* closed_borders_validator: top row, left column, bottom row, right
\* column in turn; it raises at the first open border wall, and writes
\* nothing to the maze
closed_borders_validator(g, w, h) ==
    LET top == {x \in 0 .. w - 1 : is_it_solid_wall(g[<<x, 0>>], 1) = FALSE}
        left == {y \in 0 .. h - 1 : is_it_solid_wall(g[<<0, y>>], 8) = FALSE}
        bottom == {x \in 0 .. w - 1 :
                      is_it_solid_wall(g[<<x, h - 1>>], 4) = FALSE}
        right == {y \in 0 .. h - 1 :
                     is_it_solid_wall(g[<<w - 1, y>>], 2) = FALSE}
    IN IF top # {}
       THEN [err |-> "OpenBorderWall", direction |-> "N",
             at |-> <<Least(top), 0>>, grid |-> g]
       ELSE IF left # {}
       THEN [err |-> "OpenBorderWall", direction |-> "W",
             at |-> <<0, Least(left)>>, grid |-> g]
       ELSE IF bottom # {}
       THEN [err |-> "OpenBorderWall", direction |-> "S",
             at |-> <<Least(bottom), h - 1>>, grid |-> g]
       ELSE IF right # {}
       THEN [err |-> "OpenBorderWall", direction |-> "E",
             at |-> <<w - 1, Least(right)>>, grid |-> g]
       ELSE [err |-> "none", direction |-> "none", at |-> NoCoord,
             grid |-> g]

(***************************************************************************)
(* Connectivity validator (validators.py): the coordinates its BFS visits. *)
(***************************************************************************)
RECURSIVE bfs_connection_loop(_, _, _, _, _, _)
bfs_connection_loop(g, w, h, forb, visited_coords, coords_to_visit) ==
    IF Len(coords_to_visit) = 0 THEN visited_coords
    ELSE LET x == coords_to_visit[1][1]
             y == coords_to_visit[1][2]
             north_wall == is_it_solid_wall(g[<<x, y>>], 1)
             east_wall == is_it_solid_wall(g[<<x, y>>], 2)
             south_wall == is_it_solid_wall(g[<<x, y>>], 4)
             west_wall == is_it_solid_wall(g[<<x, y>>], 8)
             v1 == IF y - 1 >= 0 /\ north_wall = FALSE
                      /\ <<x, y - 1>> \notin Range(visited_coords)
                      /\ <<x, y - 1>> \notin forb
                   THEN <<<<x, y - 1>>>> ELSE <<>>
             s1 == visited_coords \o v1
             v2 == IF x + 1 < w /\ east_wall = FALSE
                      /\ <<x + 1, y>> \notin Range(s1)
                      /\ <<x + 1, y>> \notin forb
                   THEN <<<<x + 1, y>>>> ELSE <<>>
             s2 == s1 \o v2
             v3 == IF y + 1 < h /\ south_wall = FALSE
                      /\ <<x, y + 1>> \notin Range(s2)
                      /\ <<x, y + 1>> \notin forb
                   THEN <<<<x, y + 1>>>> ELSE <<>>
             s3 == s2 \o v3
             v4 == IF x - 1 >= 0 /\ west_wall = FALSE
                      /\ <<x - 1, y>> \notin Range(s3)
                      /\ <<x - 1, y>> \notin forb
                   THEN <<<<x - 1, y>>>> ELSE <<>>
         IN bfs_connection_loop(g, w, h, forb, s3 \o v4,
                Tail(coords_to_visit \o v1 \o v2 \o v3 \o v4))

\* the visited list bfs_connection_validator ends with
bfs_connection_validator(g, w, h, en, forb) ==
    bfs_connection_loop(g, w, h, forb, <<en>>, <<en>>)

(***************************************************************************)
(* Extra-connectivity pass (maze_files/multiple_path_maze.py).             *)
(***************************************************************************)
\* a pair check that takes every wall for closed
check_neighbor_pair_any(g, coord1, direction) == TRUE

check_neighbor_pair(g, coord1, direction) ==
    IF is_it_solid_wall(g[coord1], DIR_BIT_VALUE[direction]) THEN TRUE
    ELSE FALSE

RECURSIVE scan_cells_first_only(_, _, _, _, _, _)
\* a scan that keeps a pair whenever its first cell is not forbidden
scan_cells_first_only(g, w, h, forb, lo, hi) ==
    IF lo > hi THEN <<>>
    ELSE IF lo = hi
    THEN LET x == lo % w
             y == lo \div w
             east == IF x + 1 < w
                     THEN IF /\ check_neighbor_pair(g, <<x, y>>, "E") = TRUE
                             /\ <<x, y>> \notin forb
                          THEN << <<<<x, y>>, <<x + 1, y>>, "E">> >>
                          ELSE <<>>
                     ELSE <<>>
             south == IF y + 1 < h
                      THEN IF /\ check_neighbor_pair(g, <<x, y>>, "S") = TRUE
                              /\ <<x, y>> \notin forb
                           THEN << <<<<x, y>>, <<x, y + 1>>, "S">> >>
                           ELSE <<>>
                      ELSE <<>>
         IN east \o south
    ELSE scan_cells_first_only(g, w, h, forb, lo, (lo + hi) \div 2)
            \o scan_cells_first_only(g, w, h, forb, ((lo + hi) \div 2) + 1, hi)

RECURSIVE scan_cells(_, _, _, _, _, _)
\* the scan of lines 76-91 over the cells numbered lo to hi, row by row:
\* the list of <<coord1, coord2, direction>> it appends, those of the first
\* half of the cells before those of the second
scan_cells(g, w, h, forb, lo, hi) ==
    IF lo > hi THEN <<>>
    ELSE IF lo = hi
    THEN LET x == lo % w
             y == lo \div w
             east == IF x + 1 < w
                     THEN IF /\ check_neighbor_pair(g, <<x, y>>, "E") = TRUE
                             /\ <<x, y>> \notin forb
                             /\ <<x + 1, y>> \notin forb
                          THEN << <<<<x, y>>, <<x + 1, y>>, "E">> >>
                          ELSE <<>>
                     ELSE <<>>
             south == IF y + 1 < h
                      THEN IF /\ check_neighbor_pair(g, <<x, y>>, "S") = TRUE
                              /\ <<x, y>> \notin forb
                              /\ <<x, y + 1>> \notin forb
                           THEN << <<<<x, y>>, <<x, y + 1>>, "S">> >>
                           ELSE <<>>
                      ELSE <<>>
         IN east \o south
    ELSE scan_cells(g, w, h, forb, lo, (lo + hi) \div 2)
            \o scan_cells(g, w, h, forb, ((lo + hi) \div 2) + 1, hi)

\* the scan of lines 76-91 from cell number k on
scan_candidates(g, w, h, forb, k) == scan_cells(g, w, h, forb, k, w * h - 1)

Max(a, b) == IF a >= b THEN a ELSE b

Min(a, b) == IF a <= b THEN a ELSE b

\* the pass opening one wall whatever the size of the maze
target_extra_paths_one(w, h) == 1

\* the number of extra walls asked for (line 69)
target_extra_paths(w, h) == Max(1, (w * h) \div 25)

(***************************************************************************)
(* DFS generator (maze_files/dfs_maze_generator.py, of which only the      *)
(* callers are in the sources): the neighbours of the stack top that can   *)
(* be carved to, in canonical direction order.                             *)
(***************************************************************************)
\* neighbours filtered by bounds and visits and not by the forbidden set
dfs_eligible_through_forbidden(w, h, forb, seen, current) ==
    SelectTuple([i \in 1 .. Len(DIRECTIONS) |-> Step(current, DIRECTIONS[i])],
                Cells(w, h) \ seen)

dfs_eligible(w, h, forb, seen, current) ==
    SelectTuple([i \in 1 .. Len(DIRECTIONS) |-> Step(current, DIRECTIONS[i])],
                Cells(w, h) \ (seen \cup forb))

\* a pick that does not come from the seeded stream
dfs_choice_unseeded(n) == 0 .. n - 1

\* the index picked among n eligible neighbours: one draw from the seeded
\* stream
dfs_choice(n) == RandBelow(n)

(***************************************************************************)
(* Stencil marker (maze_files/forty_two_marking.py).                       *)
(***************************************************************************)
stamp_height == 5

stamp_width == 7

border_margin == 4

\* a stamp that is a closed ring around the middle of its box
cells_to_be_blocked_ring ==
    << <<1, 0>>, <<2, 0>>, <<3, 0>>, <<4, 0>>, <<5, 0>>,
       <<1, 1>>, <<5, 1>>,
       <<1, 2>>, <<5, 2>>,
       <<1, 3>>, <<5, 3>>,
       <<1, 4>>, <<2, 4>>, <<3, 4>>, <<4, 4>>, <<5, 4>> >>

\* the relative cells of the stamp (lines 48-67)
cells_to_be_blocked ==
    << <<0, 0>>, <<4, 0>>, <<5, 0>>, <<6, 0>>,
       <<0, 1>>, <<6, 1>>,
       <<0, 2>>, <<1, 2>>, <<2, 2>>, <<4, 2>>, <<5, 2>>, <<6, 2>>,
       <<2, 3>>, <<4, 3>>,
       <<2, 4>>, <<4, 4>>, <<5, 4>>, <<6, 4>> >>

\* a marking that returns the stamp whether or not an endpoint is in it
forty_two_marking_no_skip(h, w, en, ex) ==
    IF h < stamp_height + (2 * border_margin)
          \/ w < stamp_width + (2 * border_margin)
    THEN [cells |-> {}, warning |-> "none"]
    ELSE [cells |->
              {<<(w \div 2) - (stamp_width \div 2) + cells_to_be_blocked[i][1],
                 (h \div 2) - (stamp_height \div 2) + cells_to_be_blocked[i][2]>> :
                  i \in 1 .. Len(cells_to_be_blocked)},
          warning |-> "none"]

\* a marking that puts the stamp at ((w - 7) // 2, (h - 5) // 2)
forty_two_marking_centred(h, w, en, ex) ==
    IF h < stamp_height + (2 * border_margin)
          \/ w < stamp_width + (2 * border_margin)
    THEN [cells |-> {}, warning |-> "none"]
    ELSE LET stamped ==
                 {<<((w - stamp_width) \div 2) + cells_to_be_blocked[i][1],
                    ((h - stamp_height) \div 2) + cells_to_be_blocked[i][2]>> :
                     i \in 1 .. Len(cells_to_be_blocked)}
         IN IF en \in stamped /\ ex \in stamped
            THEN [cells |-> {}, warning |-> "both"]
            ELSE IF en \in stamped THEN [cells |-> {}, warning |-> "entry"]
            ELSE IF ex \in stamped THEN [cells |-> {}, warning |-> "exit"]
            ELSE [cells |-> stamped, warning |-> "none"]

\* a marking that skips the stamp for an entry in it and not for an exit
forty_two_marking_entry_only(h, w, en, ex) ==
    IF h < stamp_height + (2 * border_margin)
          \/ w < stamp_width + (2 * border_margin)
    THEN [cells |-> {}, warning |-> "none"]
    ELSE LET stamped ==
                 {<<(w \div 2) - (stamp_width \div 2) + cells_to_be_blocked[i][1],
                    (h \div 2) - (stamp_height \div 2) + cells_to_be_blocked[i][2]>> :
                     i \in 1 .. Len(cells_to_be_blocked)}
         IN IF en \in stamped THEN [cells |-> {}, warning |-> "entry"]
            ELSE [cells |-> stamped, warning |-> "none"]

\* forty_two_marking(maze) for a maze of the given fields: the set it
\* returns and the warning it prints
forty_two_marking(h, w, en, ex) ==
    IF h < stamp_height + (2 * border_margin)
          \/ w < stamp_width + (2 * border_margin)
    THEN [cells |-> {}, warning |-> "none"]
    ELSE LET x_center == w \div 2
             y_center == h \div 2
             top_left_x_pos == x_center - (stamp_width \div 2)
             top_left_y_pos == y_center - (stamp_height \div 2)
             stamped ==
                 {<<top_left_x_pos + cells_to_be_blocked[i][1],
                    top_left_y_pos + cells_to_be_blocked[i][2]>> :
                     i \in 1 .. Len(cells_to_be_blocked)}
         IN IF en \in stamped /\ ex \in stamped
            THEN [cells |-> {}, warning |-> "both"]
            ELSE IF en \in stamped THEN [cells |-> {}, warning |-> "entry"]
            ELSE IF ex \in stamped THEN [cells |-> {}, warning |-> "exit"]
            ELSE [cells |-> stamped, warning |-> "none"]

(***************************************************************************)
(* Direction strings: _coords_to_path (a_maze_ing.py), its twin            *)
(* MazeGenerator.coords_to_directions (mazegen.py) and the replay of a     *)
(* string by _cells_on_path (visualizer.py).  A string is a sequence of    *)
(* letters; err tells the ValueError raised, if any.                       *)
(***************************************************************************)
\* the letter of a step with North taken for dy = 1 and South for dy = -1
coords_to_path_step_flipped(c1, c2) ==
    LET dx == c2[1] - c1[1]
        dy == c2[2] - c1[2]
    IN IF dx = 1 /\ dy = 0 THEN "E"
       ELSE IF dx = -1 /\ dy = 0 THEN "W"
       ELSE IF dx = 0 /\ dy = 1 THEN "N"
       ELSE IF dx = 0 /\ dy = -1 THEN "S"
       ELSE "NonAdjacentStep"

\* the body of the for loop of _coords_to_path (lines 74-87) for one pair:
\* the letter appended, or the ValueError raised
coords_to_path_step(c1, c2) ==
    LET dx == c2[1] - c1[1]
        dy == c2[2] - c1[2]
    IN IF dx = 1 /\ dy = 0 THEN "E"
       ELSE IF dx = -1 /\ dy = 0 THEN "W"
       ELSE IF dx = 0 /\ dy = -1 THEN "N"
       ELSE IF dx = 0 /\ dy = 1 THEN "S"
       ELSE "NonAdjacentStep"

RECURSIVE coords_to_path_pairs(_, _, _)
\* the for loop of _coords_to_path over the pairs numbered lo to hi, those
\* of the first half before those of the second: the letters appended, or
\* the first ValueError
coords_to_path_pairs(coords, lo, hi) ==
    IF lo > hi THEN [err |-> "none", str |-> <<>>]
    ELSE IF lo = hi
    THEN LET letter == coords_to_path_step(coords[lo], coords[lo + 1])
         IN IF letter = "NonAdjacentStep"
            THEN [err |-> "NonAdjacentStep", str |-> <<>>]
            ELSE [err |-> "none", str |-> <<letter>>]
    ELSE LET first == coords_to_path_pairs(coords, lo, (lo + hi) \div 2)
         IN IF first.err # "none" THEN first
            ELSE LET rest == coords_to_path_pairs(coords,
                                 ((lo + hi) \div 2) + 1, hi)
                 IN IF rest.err # "none" THEN rest
                    ELSE [err |-> "none", str |-> first.str \o rest.str]

\* the for loop of _coords_to_path (lines 73-87) from pair i on
coords_to_path_loop(coords, i, steps) ==
    LET rest == coords_to_path_pairs(coords, i, Len(coords) - 1)
    IN IF rest.err # "none" THEN rest
       ELSE [err |-> "none", str |-> steps \o rest.str]

_coords_to_path(coords) ==
    IF Len(coords) = 0 THEN [err |-> "none", str |-> <<>>]
    ELSE coords_to_path_loop(coords, 1, <<>>)

RECURSIVE coords_to_directions_loop(_, _, _)
\* the for loop of coords_to_directions (lines 230-243) from pair i on
coords_to_directions_loop(coords_list, i, out) ==
    IF i >= Len(coords_list) THEN [err |-> "none", str |-> out]
    ELSE LET dx == coords_list[i + 1][1] - coords_list[i][1]
             dy == coords_list[i + 1][2] - coords_list[i][2]
         IN IF dx = 0 /\ dy = -1
            THEN coords_to_directions_loop(coords_list, i + 1,
                                           Append(out, "N"))
            ELSE IF dx = 1 /\ dy = 0
            THEN coords_to_directions_loop(coords_list, i + 1,
                                           Append(out, "E"))
            ELSE IF dx = 0 /\ dy = 1
            THEN coords_to_directions_loop(coords_list, i + 1,
                                           Append(out, "S"))
            ELSE IF dx = -1 /\ dy = 0
            THEN coords_to_directions_loop(coords_list, i + 1,
                                           Append(out, "W"))
            ELSE [err |-> "NonAdjacentStep", str |-> <<>>]

\* a converter that needs three points to produce a move
coords_to_directions_three(coords) ==
    IF Len(coords) < 3 THEN [err |-> "none", str |-> <<>>]
    ELSE coords_to_directions_loop(coords, 1, <<>>)

\* coords_to_directions called with a coordinate list
coords_to_directions(coords) ==
    IF Len(coords) < 2 THEN [err |-> "none", str |-> <<>>]
    ELSE coords_to_directions_loop(coords, 1, <<>>)

RECURSIVE cells_on_path_loop(_, _, _, _, _, _)
\* the for loop of _cells_on_path (lines 106-122) from letter i on
cells_on_path_loop(path, w, h, i, at, seen) ==
    IF i > Len(path) THEN [err |-> "none", cells |-> seen]
    ELSE IF path[i] \notin {"N", "E", "S", "W"}
    THEN [err |-> "InvalidPathChar", cells |-> {}]
    ELSE LET x == IF path[i] = "E" THEN at[1] + 1
                  ELSE IF path[i] = "W" THEN at[1] - 1 ELSE at[1]
             y == IF path[i] = "N" THEN at[2] - 1
                  ELSE IF path[i] = "S" THEN at[2] + 1 ELSE at[2]
         IN IF ~ (0 <= x /\ x < w /\ 0 <= y /\ y < h)
            THEN [err |-> "PathOutOfBounds", cells |-> {}]
            ELSE cells_on_path_loop(path, w, h, i + 1, <<x, y>>,
                                    seen \cup {<<x, y>>})

\* _cells_on_path: the set of cells the string visits from the entry
_cells_on_path(en, path, w, h) ==
    IF ~ (0 <= en[1] /\ en[1] < w /\ 0 <= en[2] /\ en[2] < h)
    THEN [err |-> "EntryOutOfBounds", cells |-> {}]
    ELSE cells_on_path_loop(path, w, h, 1, en, {en})

(***************************************************************************)
(* MazeGenerator (mazegen.py).  _path is None (NotSolved) or the record of *)
(* a solved path.                                                          *)
(***************************************************************************)
\* what a Python function without return statement gives back
None == <<"None">>

\* the property MazeGenerator.path (lines 134-144): it raises when _path
\* is None, and otherwise reaches the end of its body, which has no return
\* statement
MazeGenerator_path(_path) ==
    IF _path.status = "none" THEN [err |-> "RuntimeError", value |-> None]
    ELSE [err |-> "none", value |-> None]

\* solve_maze_path (lines 187-196) on a generated maze: it calls
\* bfs_shortest_path_solver(self.maze) with one argument, and the solver
\* has two parameters without default (bfs_shortest_path_solver.py lines
\* 28-29), so the call raises TypeError before _path is assigned; without
\* a maze the property self.maze raises RuntimeError (lines 113-116)
solve_maze_path(generated, _path) ==
    IF ~ generated THEN [err |-> "RuntimeError", _path |-> _path]
    ELSE [err |-> "TypeError", _path |-> _path]

(***************************************************************************)
(* Output writer (output_writer.py).  A file is the sequence of its lines, *)
(* a line the sequence of its characters.                                  *)
(***************************************************************************)
\* maze.grid as the list of rows the writer reads
RowsOf(g, w, h) == [y \in 1 .. h |-> [x \in 1 .. w |-> g[<<x - 1, y - 1>>]]]

\* _validate_maze_grid: the first fault in the order of lines 34-42
_validate_maze_grid(rows, w, h) ==
    IF Len(rows) # h THEN "GridHeightMismatch"
    ELSE LET bad == {y \in 1 .. Len(rows) :
                        \/ Len(rows[y]) # w
                        \/ \E x \in 1 .. Len(rows[y]) :
                              ~ (0 <= rows[y][x] /\ rows[y][x] <= 15)}
         IN IF bad = {} THEN "none"
            ELSE IF Len(rows[Least(bad)]) # w THEN "GridWidthMismatch"
            ELSE "InvalidCellValue"

\* format(cell, "X") and the decimal digits of str(int)
HexDigit(n) ==
    <<"0", "1", "2", "3", "4", "5", "6", "7", "8", "9", "A", "B", "C", "D",
      "E", "F">>[n + 1]

RECURSIVE Decimal(_)
Decimal(n) ==
    IF n < 10 THEN <<HexDigit(n)>>
    ELSE Decimal(n \div 10) \o <<HexDigit(n % 10)>>

\* _format_coord
_format_coord(coord) == Decimal(coord[1]) \o <<",">> \o Decimal(coord[2])

\* the lines written by the with block of lines 102-117
output_lines(rows, w, h, en, ex, path) ==
    [y \in 1 .. h |-> [x \in 1 .. w |-> HexDigit(rows[y][x])]]
       \o <<<<>>, _format_coord(en), _format_coord(ex), path>>

\* a writer that opens the file, which empties it, before it validates
write_output_validate_late(file, rows, w, h, en, ex, path, disk_error) ==
    IF disk_error THEN [err |-> "OSError", file |-> file]
    ELSE IF _validate_maze_grid(rows, w, h) # "none"
    THEN [err |-> _validate_maze_grid(rows, w, h), file |-> <<>>]
    ELSE IF \E i \in 1 .. Len(path) : path[i] \notin {"N", "E", "S", "W"}
    THEN [err |-> "InvalidPathCharacter", file |-> <<>>]
    ELSE [err |-> "none", file |-> output_lines(rows, w, h, en, ex, path)]

\* write_output: the grid and the path are validated (lines 96-100), then
\* the file is opened for writing, which raises OSError when disk_error,
\* and receives its lines.  file is the content found, the result tells
\* the error raised and the content left.
write_output(file, rows, w, h, en, ex, path, disk_error) ==
    IF _validate_maze_grid(rows, w, h) # "none"
    THEN [err |-> _validate_maze_grid(rows, w, h), file |-> file]
    ELSE IF \E i \in 1 .. Len(path) : path[i] \notin {"N", "E", "S", "W"}
    THEN [err |-> "InvalidPathCharacter", file |-> file]
    ELSE IF disk_error THEN [err |-> "OSError", file |-> file]
    ELSE [err |-> "none", file |-> output_lines(rows, w, h, en, ex, path)]

(***************************************************************************)
(* Configuration parser (config_parser.py).  A text is the sequence of its *)
(* characters; a file is the sequence of its lines, each already told      *)
(* apart as blank, comment, line without "=" or KEY=VALUE pair.            *)
(***************************************************************************)
\* str.strip(): the text without its leading and trailing blanks
RECURSIVE lstrip(_)
lstrip(text) ==
    IF Len(text) > 0 /\ text[1] = " " THEN lstrip(Tail(text)) ELSE text

strip(text) == Reverse(lstrip(Reverse(lstrip(text))))

\* the number a text of decimal digits stands for
RECURSIVE digits_value(_)
digits_value(text) ==
    IF Len(text) = 0 THEN 0
    ELSE 10 * digits_value(SubSeq(text, 1, Len(text) - 1))
            + (CHOOSE d \in 0 .. 9 : HexDigit(d) = text[Len(text)])

\* the ten decimal digits
DecimalDigits == {"0", "1", "2", "3", "4", "5", "6", "7", "8", "9"}

\* int(text): blanks around, an optional sign, then digits only
parse_int(text) ==
    LET stripped == strip(text)
        body == IF Len(stripped) > 0 /\ stripped[1] \in {"-", "+"}
                THEN Tail(stripped) ELSE stripped
    IN IF Len(body) = 0
          \/ \E i \in 1 .. Len(body) : body[i] \notin DecimalDigits
       THEN [ok |-> FALSE, value |-> 0]
       ELSE [ok |-> TRUE,
             value |-> IF stripped[1] = "-" THEN 0 - digits_value(body)
                       ELSE digits_value(body)]

\* value.split(","): the parts between the commas
RECURSIVE split_commas(_, _)
split_commas(text, part) ==
    IF Len(text) = 0 THEN <<part>>
    ELSE IF text[1] = "," THEN <<part>> \o split_commas(Tail(text), <<>>)
    ELSE split_commas(Tail(text), Append(part, text[1]))

\* _parse_coord: two integers around one comma
_parse_coord(value) ==
    LET parts == split_commas(value, <<>>)
        x == parse_int(parts[1])
        y == parse_int(parts[2])
    IN IF Len(parts) # 2 THEN [ok |-> FALSE, coord |-> <<0, 0>>]
       ELSE IF ~ x.ok \/ ~ y.ok THEN [ok |-> FALSE, coord |-> <<0, 0>>]
       ELSE [ok |-> TRUE, coord |-> <<x.value, y.value>>]

\* str.lower() on the letters the files of the model use
lower(text) ==
    [i \in 1 .. Len(text) |->
        IF text[i] = "T" THEN "t" ELSE IF text[i] = "F" THEN "f"
        ELSE IF text[i] = "N" THEN "n" ELSE text[i]]

\* the characters of a word
Chars(word) ==
    CASE word = "true" -> <<"t", "r", "u", "e">>
      [] word = "false" -> <<"f", "a", "l", "s", "e">>
      [] word = "yes" -> <<"y", "e", "s">>
      [] word = "no" -> <<"n", "o">>
      [] OTHER -> <<word>>

\* _parse_bool
_parse_bool(value) ==
    IF lower(strip(value)) \in {Chars("true"), Chars("1"), Chars("yes"),
                                Chars("y")}
    THEN [ok |-> TRUE, value |-> TRUE]
    ELSE IF lower(strip(value)) \in {Chars("false"), Chars("0"),
                                     Chars("no"), Chars("n")}
    THEN [ok |-> TRUE, value |-> FALSE]
    ELSE [ok |-> FALSE, value |-> FALSE]

\* key.strip().upper() on the keys the files of the model use
upper(key) ==
    IF key = "seed" THEN "SEED" ELSE IF key = "height" THEN "HEIGHT" ELSE key

_REQUIRED_KEYS == {"WIDTH", "HEIGHT", "ENTRY", "EXIT", "OUTPUT_FILE", "PERFECT"}

\* the Config of a failed load, and seed = None
NoConfig ==
    [width |-> 0, height |-> 0, entry |-> <<0, 0>>, exit |-> <<0, 0>>,
     output_file |-> <<>>, perfect |-> FALSE, seed |-> <<>>]

\* the loop of lines 106-120: data after the lines from i on, or the
\* syntax error of the first bad line
RECURSIVE read_lines(_, _, _)
read_lines(lines, i, data) ==
    IF i > Len(lines) THEN [err |-> "none", data |-> data]
    ELSE IF lines[i].kind \in {"blank", "comment"}
    THEN read_lines(lines, i + 1, data)
    ELSE IF lines[i].kind = "no_equals"
    THEN [err |-> "BadSyntax", data |-> data]
    ELSE IF lines[i].key = "" THEN [err |-> "BadSyntax", data |-> data]
    ELSE read_lines(lines, i + 1,
            [k \in DOMAIN data \cup {upper(lines[i].key)} |->
                IF k = upper(lines[i].key) THEN strip(lines[i].value)
                ELSE data[k]])

\* a parser that compares the coordinates with the width and the height
\* inclusively
load_config_inclusive_bounds(file) ==
    LET read == read_lines(file.lines, 1, <<>>)
        data == read.data
        width_ == parse_int(data["WIDTH"])
        height_ == parse_int(data["HEIGHT"])
        entry_ == _parse_coord(data["ENTRY"])
        exit_ == _parse_coord(data["EXIT"])
        perfect_ == _parse_bool(data["PERFECT"])
        seeded == "SEED" \in DOMAIN data /\ strip(data["SEED"]) # <<>>
    IN IF ~ file.exists THEN [err |-> "OSError", cfg |-> NoConfig]
       ELSE IF read.err # "none" THEN [err |-> read.err, cfg |-> NoConfig]
       ELSE IF \E k \in _REQUIRED_KEYS : k \notin DOMAIN data
       THEN [err |-> "MissingKey", cfg |-> NoConfig]
       ELSE IF ~ width_.ok \/ ~ height_.ok
       THEN [err |-> "NotInteger", cfg |-> NoConfig]
       ELSE IF width_.value <= 0 \/ height_.value <= 0
       THEN [err |-> "InvalidDimension", cfg |-> NoConfig]
       ELSE IF ~ entry_.ok \/ ~ exit_.ok
       THEN [err |-> "InvalidCoordinate", cfg |-> NoConfig]
       ELSE IF ~ (0 <= entry_.coord[1] /\ entry_.coord[1] <= width_.value
                  /\ 0 <= entry_.coord[2] /\ entry_.coord[2] <= height_.value)
       THEN [err |-> "OutOfBounds", cfg |-> NoConfig]
       ELSE IF ~ (0 <= exit_.coord[1] /\ exit_.coord[1] <= width_.value
                  /\ 0 <= exit_.coord[2] /\ exit_.coord[2] <= height_.value)
       THEN [err |-> "OutOfBounds", cfg |-> NoConfig]
       ELSE IF entry_.coord = exit_.coord
       THEN [err |-> "DegenerateEndpoints", cfg |-> NoConfig]
       ELSE IF strip(data["OUTPUT_FILE"]) = <<>>
       THEN [err |-> "EmptyOutputFile", cfg |-> NoConfig]
       ELSE IF ~ perfect_.ok THEN [err |-> "InvalidBoolean", cfg |-> NoConfig]
       ELSE IF seeded /\ ~ parse_int(data["SEED"]).ok
       THEN [err |-> "InvalidSeed", cfg |-> NoConfig]
       ELSE [err |-> "none",
             cfg |-> [width |-> width_.value, height |-> height_.value,
                      entry |-> entry_.coord, exit |-> exit_.coord,
                      output_file |-> strip(data["OUTPUT_FILE"]),
                      perfect |-> perfect_.value,
                      seed |-> IF seeded
                               THEN <<parse_int(data["SEED"]).value>>
                               ELSE <<>>]]

\* load_config(path): the error raised (OSError when the file cannot be
\* opened, else a ValueError), or the Config returned
load_config(file) ==
    LET read == read_lines(file.lines, 1, <<>>)
        data == read.data
        width_ == parse_int(data["WIDTH"])
        height_ == parse_int(data["HEIGHT"])
        entry_ == _parse_coord(data["ENTRY"])
        exit_ == _parse_coord(data["EXIT"])
        perfect_ == _parse_bool(data["PERFECT"])
        seeded == "SEED" \in DOMAIN data /\ strip(data["SEED"]) # <<>>
    IN IF ~ file.exists THEN [err |-> "OSError", cfg |-> NoConfig]
       ELSE IF read.err # "none" THEN [err |-> read.err, cfg |-> NoConfig]
       ELSE IF \E k \in _REQUIRED_KEYS : k \notin DOMAIN data
       THEN [err |-> "MissingKey", cfg |-> NoConfig]
       ELSE IF ~ width_.ok \/ ~ height_.ok
       THEN [err |-> "NotInteger", cfg |-> NoConfig]
       ELSE IF width_.value <= 0 \/ height_.value <= 0
       THEN [err |-> "InvalidDimension", cfg |-> NoConfig]
       ELSE IF ~ entry_.ok \/ ~ exit_.ok
       THEN [err |-> "InvalidCoordinate", cfg |-> NoConfig]
       ELSE IF ~ (0 <= entry_.coord[1] /\ entry_.coord[1] < width_.value
                  /\ 0 <= entry_.coord[2] /\ entry_.coord[2] < height_.value)
       THEN [err |-> "OutOfBounds", cfg |-> NoConfig]
       ELSE IF ~ (0 <= exit_.coord[1] /\ exit_.coord[1] < width_.value
                  /\ 0 <= exit_.coord[2] /\ exit_.coord[2] < height_.value)
       THEN [err |-> "OutOfBounds", cfg |-> NoConfig]
       ELSE IF entry_.coord = exit_.coord
       THEN [err |-> "DegenerateEndpoints", cfg |-> NoConfig]
       ELSE IF strip(data["OUTPUT_FILE"]) = <<>>
       THEN [err |-> "EmptyOutputFile", cfg |-> NoConfig]
       ELSE IF ~ perfect_.ok THEN [err |-> "InvalidBoolean", cfg |-> NoConfig]
       ELSE IF seeded /\ ~ parse_int(data["SEED"]).ok
       THEN [err |-> "InvalidSeed", cfg |-> NoConfig]
       ELSE [err |-> "none",
             cfg |-> [width |-> width_.value, height |-> height_.value,
                      entry |-> entry_.coord, exit |-> exit_.coord,
                      output_file |-> strip(data["OUTPUT_FILE"]),
                      perfect |-> perfect_.value,
                      seed |-> IF seeded
                               THEN <<parse_int(data["SEED"]).value>>
                               ELSE <<>>]]

(***************************************************************************)
(* Inputs: every valid maze of at most MaxArea cells with every forbidden  *)
(* set of at most MaxForbidden cells that leaves out the entry, and the    *)
(* one-row and one-column mazes of CorridorLen cells, entered at one end   *)
(* and left at the other, with at most one forbidden cell among the last   *)
(* CorridorGap + 1 cells.                                                  *)
(***************************************************************************)
CorridorGap == 4

SmallInputs ==
    UNION {
      { [width |-> w, height |-> h, entry |-> en, exit |-> ex,
         forbidden_cells |-> f] :
            <<en, ex, f>> \in
                { t \in Cells(w, h) \X Cells(w, h) \X SUBSET Cells(w, h) :
                      /\ t[1] # t[2]
                      /\ t[1] \notin t[3]
                      /\ Cardinality(t[3]) <= MaxForbidden } } :
      <<w, h>> \in { d \in (1 .. MaxArea) \X (1 .. MaxArea) :
                        d[1] * d[2] <= MaxArea /\ d[1] * d[2] >= 2 } }

CorridorInputs ==
    UNION {
      { [width |-> d[1], height |-> d[2], entry |-> <<0, 0>>,
         exit |-> <<d[1] - 1, d[2] - 1>>, forbidden_cells |-> f] :
            f \in {{}} \cup
                  { {<<d[1] - 1 - k * (d[1] \div CorridorLen),
                       d[2] - 1 - k * (d[2] \div CorridorLen)>>} :
                        k \in 0 .. CorridorGap } } :
      d \in {<<CorridorLen, 1>>, <<1, CorridorLen>>} }

Inputs == SmallInputs \cup CorridorInputs

(***************************************************************************)
(* The pipeline.  Init is get_state after Maze(...) returned: every cell   *)
(* is 15 and nothing was drawn from the random stream yet.                 *)
(***************************************************************************)
NotSolved == [status |-> "none", path |-> <<>>]

\* path_str before line 188 has assigned it
Unbound == <<"unbound">>

\* the output file does not exist
NoFile == <<"absent">>

\* no call was made from outside the pipeline
NoCall == [op |-> "none", args |-> <<>>, before |-> <<>>, result |-> <<>>]

Init ==
    /\ \E inp \in Inputs :
          /\ width = inp.width
          /\ height = inp.height
          /\ entry = inp.entry
          /\ exit = inp.exit
          /\ forbidden_cells = inp.forbidden_cells
    /\ perfect \in BOOLEAN
    /\ grid = FreshGrid(width, height)
    /\ stream = <<>>
    /\ draws = 0
    /\ pc = "generate"
    /\ stack = <<>>
    /\ visited = {}
    /\ candidate_cells = <<>>
    /\ extra_paths = 0
    /\ paths = 0
    /\ solved = NotSolved
    /\ path_str = Unbound
    /\ call = NoCall
    /\ output_file = NoFile
    /\ raised = "none"
    /\ run = 1
    /\ dfs_grid = grid
    /\ pass_start = grid
    /\ opened = {}
    /\ first_dfs = grid
    /\ first_final = grid

maze_fields == <<width, height, entry, exit, forbidden_cells, perfect>>
pass_locals == <<candidate_cells, extra_paths, paths, pass_start, opened>>
first_run == <<first_dfs, first_final>>

\* get_state lines 165-168 and the start of dfs_maze_generator: the
\* forbidden cells are set to 15, the stream is seeded, the entry is pushed
\* and marked visited.
GenerateStart ==
    /\ pc = "generate"
    /\ grid' = [c \in DOMAIN grid |->
                   IF c \in forbidden_cells THEN 15 ELSE grid[c]]
    /\ draws' = 0
    /\ stack' = <<entry>>
    /\ visited' = {entry}
    /\ pc' = "dfs"
    /\ UNCHANGED <<maze_fields, call, output_file, raised,
                   stream, pass_locals, solved, path_str,
                   run, dfs_grid, first_run>>

\* where get_state continues after dfs_maze_generator (lines 181-187)
AfterDfs == IF perfect THEN "solve" ELSE "pass"

\* one iteration of the DFS loop with an eligible neighbour: one draw picks
\* it, the wall to it is carved, it is marked visited and pushed.  A
\* ValueError of the carve is caught at get_state line 175.
DfsCarve ==
    /\ pc = "dfs"
    /\ stack # <<>>
    /\ LET current == stack[Len(stack)]
           eligible == dfs_eligible(width, height, forbidden_cells, visited,
                                    current)
       IN /\ Len(eligible) > 0
          /\ \E r \in dfs_choice(Len(eligible)) :
                LET chosen == eligible[r + 1]
                    carved == carve_coordinate(grid, width, height, current,
                                               chosen)
                IN /\ stream' = StreamAfter(r)
                   /\ draws' = draws + 1
                   /\ IF carved.err # "none"
                      THEN /\ pc' = AfterDfs
                           /\ dfs_grid' = grid
                           /\ UNCHANGED <<grid, stack, visited>>
                      ELSE /\ grid' = carved.grid
                           /\ visited' = visited \cup {chosen}
                           /\ stack' = Append(stack, chosen)
                           /\ UNCHANGED <<pc, dfs_grid>>
    /\ UNCHANGED <<maze_fields, call, output_file, raised,
                   pass_locals, solved, path_str, run,
                   first_run>>

\* one iteration of the DFS loop without eligible neighbour: backtrack
DfsBacktrack ==
    /\ pc = "dfs"
    /\ stack # <<>>
    /\ Len(dfs_eligible(width, height, forbidden_cells, visited,
                        stack[Len(stack)])) = 0
    /\ stack' = SubSeq(stack, 1, Len(stack) - 1)
    /\ UNCHANGED <<maze_fields, call, output_file, raised,
                   grid, stream, draws, pc, visited,
                   pass_locals, solved, path_str, run, dfs_grid, first_run>>

\* the DFS loop ends with the stack empty and dfs_maze_generator returns
DfsReturn ==
    /\ pc = "dfs"
    /\ stack = <<>>
    /\ dfs_grid' = grid
    /\ pc' = AfterDfs
    /\ UNCHANGED <<maze_fields, call, output_file, raised,
                   grid, stream, draws, stack, visited,
                   pass_locals, solved, path_str, run, first_run>>

\* multiple_path_maze lines 69-94: the target count, the candidate scan and
\* the clamp
PassStart ==
    /\ pc = "pass"
    /\ LET found == scan_candidates(grid, width, height, forbidden_cells, 0)
       IN /\ candidate_cells' = found
          /\ extra_paths' = Min(target_extra_paths(width, height), Len(found))
    /\ paths' = 0
    /\ pass_start' = grid
    /\ opened' = {}
    /\ pc' = "pass_loop"
    /\ UNCHANGED <<maze_fields, call, output_file, raised,
                   grid, stream, draws, stack, visited,
                   solved, path_str, run, dfs_grid, first_run>>

\* one iteration of the loop of lines 97-105: a random candidate is removed
\* from the list and carved.  A ValueError of the carve leaves get_state.
PassStep ==
    /\ pc = "pass_loop"
    /\ paths < extra_paths
    /\ \E random_pick \in randint(0, Len(candidate_cells) - 1) :
          LET carving_pair == candidate_cells[random_pick + 1]
              carved == carve_coordinate(grid, width, height, carving_pair[1],
                                         carving_pair[2])
          IN /\ stream' = StreamAfter(random_pick)
             /\ draws' = draws + 1
             /\ candidate_cells' = RemoveFirst(candidate_cells, carving_pair)
             /\ IF carved.err # "none"
                THEN /\ pc' = "failed"
                     /\ UNCHANGED <<grid, paths, opened>>
                ELSE /\ grid' = carved.grid
                     /\ paths' = paths + 1
                     /\ opened' = opened \cup
                                    {<<carving_pair[1], carving_pair[2]>>}
                     /\ UNCHANGED pc
    /\ UNCHANGED <<maze_fields, call, output_file, raised,
                   stack, visited, extra_paths,
                   pass_start, solved, path_str, run, dfs_grid, first_run>>

\* the loop has run extra_paths times and multiple_path_maze returns
PassReturn ==
    /\ pc = "pass_loop"
    /\ paths = extra_paths
    /\ pc' = "solve"
    /\ UNCHANGED <<maze_fields, call, output_file, raised,
                   grid, stream, draws, stack, visited,
                   pass_locals, solved, path_str, run, dfs_grid, first_run>>

\* get_state lines 186-196: the solver runs and its path is converted to a
\* direction string; a ValueError of either is caught and printed.  Then
\* write_output is called with path_str: where the except branch was taken
\* path_str is unbound and reading it raises UnboundLocalError; otherwise
\* the file is written and get_state returns, or the writer's error leaves
\* get_state.  disk_error tells whether opening the file fails.
get_state_tail(disk_error) ==
    /\ pc = "solve"
    /\ solved' = bfs_shortest_path_solver(grid, width, height, entry, exit,
                                          forbidden_cells)
    /\ LET converted == _coords_to_path(solved'.path)
       IN IF solved'.status = "path" /\ converted.err = "none"
          THEN LET written == write_output(output_file,
                                  RowsOf(grid, width, height), width, height,
                                  entry, exit, converted.str, disk_error)
               IN /\ path_str' = converted.str
                  /\ output_file' = written.file
                  /\ raised' = IF written.err = "none" THEN "none"
                                ELSE IF written.err = "OSError"
                                THEN "OSError" ELSE "ValueError"
                  /\ pc' = IF written.err = "none" THEN "done"
                           ELSE "failed"
          ELSE /\ ~ disk_error
               /\ path_str' = Unbound
               /\ raised' = "UnboundLocalError"
               /\ pc' = "failed"
               /\ UNCHANGED output_file
    /\ UNCHANGED <<maze_fields, call, grid, stream, draws, stack, visited,
                   pass_locals, run, dfs_grid, first_run>>

\* the rest of get_state with a file system that accepts the write
Solve == get_state_tail(FALSE)

\* the rest of get_state with an output file that cannot be opened
SolveDiskError == get_state_tail(TRUE)

\* the next call of get_state: a fresh Maze from the same configuration
NextRun ==
    /\ run < MaxRuns
    /\ run' = run + 1
    /\ first_dfs' = IF run = 1 THEN dfs_grid ELSE first_dfs
    /\ first_final' = IF run = 1 THEN grid ELSE first_final
    /\ grid' = FreshGrid(width, height)
    /\ pc' = "generate"
    /\ stack' = <<>>
    /\ visited' = {}
    /\ candidate_cells' = <<>>
    /\ extra_paths' = 0
    /\ paths' = 0
    /\ solved' = NotSolved
    /\ path_str' = Unbound
    /\ raised' = "none"
    /\ UNCHANGED <<maze_fields, call, output_file, stream, draws, dfs_grid,
                   pass_start, opened>>

\* command r of run_ui_loop (visualizer.py line 296)
Regenerate == pc = "done" /\ NextRun

\* the program is started again on the same configuration after a run that
\* did not return
Restart == pc = "failed" /\ NextRun

Next ==
    \/ GenerateStart
    \/ DfsCarve
    \/ DfsBacktrack
    \/ DfsReturn
    \/ PassStart
    \/ PassStep
    \/ PassReturn
    \/ Solve
    \/ Regenerate
    \/ Restart

Spec == Init /\ [][Next]_vars

(***************************************************************************)
(* Vocabulary of the properties, stated on the masks themselves.           *)
(***************************************************************************)
\* bit b (1, 2, 4 or 8) of a mask: 1 when the wall is closed
Bit(mask, b) == (mask \div b) % 2

WallCoherent(g, w, h) ==
    \A c \in Cells(w, h) :
       /\ c[1] + 1 < w => Bit(g[c], 2) = Bit(g[<<c[1] + 1, c[2]>>], 8)
       /\ c[2] + 1 < h => Bit(g[c], 4) = Bit(g[<<c[1], c[2] + 1>>], 1)

BordersClosed(g, w, h) ==
    /\ \A x \in 0 .. w - 1 :
          Bit(g[<<x, 0>>], 1) = 1 /\ Bit(g[<<x, h - 1>>], 4) = 1
    /\ \A y \in 0 .. h - 1 :
          Bit(g[<<0, y>>], 8) = 1 /\ Bit(g[<<w - 1, y>>], 2) = 1

\* the East- and South-facing adjacent pairs of the grid
SharedWalls(w, h) ==
    {<<c, <<c[1] + 1, c[2]>>>> : c \in {d \in Cells(w, h) : d[1] + 1 < w}}
    \cup
    {<<c, <<c[1], c[2] + 1>>>> : c \in {d \in Cells(w, h) : d[2] + 1 < h}}

\* the bit of the first cell of a shared wall that faces the second
FacingBit(pair) == IF pair[2][1] = pair[1][1] + 1 THEN 2 ELSE 4

\* the shared walls that are open, read on the first cell
OpenWalls(g, w, h) ==
    {p \in SharedWalls(w, h) : Bit(g[p[1]], FacingBit(p)) = 0}

\* the four directions as a set
Directions == {"N", "E", "S", "W"}

\* the cells one open-wall step away from c, the wall read on c's mask
OpenNeighbours(g, w, h, c) ==
    {Step(c, d) :
        d \in {e \in Directions :
                  /\ Step(c, e) \in Cells(w, h)
                  /\ Bit(g[c], DIR_BIT_VALUE[e]) = 0}}

RECURSIVE Closure(_, _, _, _, _)
\* the cells reached from the set seen by steps of kind (open-wall steps or
\* plain grid steps) that stay out of avoid
Closure(g, w, h, avoid, seen) ==
    LET more == UNION {OpenNeighbours(g, w, h, c) : c \in seen} \ avoid
    IN IF more \subseteq seen THEN seen
       ELSE Closure(g, w, h, avoid, seen \cup more)

\* the cells reachable from en through open walls and non-forbidden cells
OpenReach(g, w, h, en, forb) == Closure(g, w, h, forb, {en})

\* the cells reachable from en in the grid with the forbidden cells removed:
\* the open-wall closure of the grid without any wall
GridReach(w, h, en, forb) ==
    Closure([c \in Cells(w, h) |-> 0], w, h, forb, {en})

RECURSIVE GrowPaths(_, _, _, _, _)
\* the simple open-wall paths in done, in frontier, and all those that
\* continue a path of frontier
GrowPaths(g, w, h, done, frontier) ==
    IF frontier = {} THEN done
    ELSE GrowPaths(g, w, h, done \cup frontier,
             UNION {{Append(p, n) :
                        n \in OpenNeighbours(g, w, h, p[Len(p)]) \ Range(p)} :
                    p \in frontier})

\* all the simple open-wall paths that start at cell a
SimplePaths(g, w, h, a) == GrowPaths(g, w, h, {}, {<<a>>})

RECURSIVE TallyPaths(_, _, _, _, _)
\* GrowPaths keeping count only: the number of simple open-wall paths and
\* the set of their last cells, tally being that of the paths shorter than
\* those of frontier
TallyPaths(g, w, h, tally, frontier) ==
    IF frontier = {} THEN tally
    ELSE TallyPaths(g, w, h,
             [n |-> tally.n + Cardinality(frontier),
              ends |-> tally.ends \cup {p[Len(p)] : p \in frontier}],
             UNION {{Append(p, n) :
                        n \in OpenNeighbours(g, w, h, p[Len(p)]) \ Range(p)} :
                    p \in frontier})

\* from a there is exactly one simple open-wall path to each cell of R and
\* none to any other cell: there are as many paths as cells of R, and they
\* end in the cells of R
OnePathToEach(g, w, h, a, R) ==
    LET from_a == TallyPaths(g, w, h, [n |-> 0, ends |-> {}], {<<a>>})
    IN from_a.n = Cardinality(R) /\ from_a.ends = R

\* dfs_maze_generator has returned
DfsFinished == pc \in {"pass", "pass_loop", "solve", "done", "failed"}

\* the grid is as dfs_maze_generator left it
JustGenerated == pc = "pass" \/ (perfect /\ pc = "solve")

\* multiple_path_maze has returned
PassFinished == ~ perfect /\ pc \in {"solve", "done", "failed"}

\* C1: after DFS generation, during and after the extra-connectivity pass,
\* the grid is wall-coherent: on every interior East/South adjacency the
\* East (South) bit of the first cell equals the West (North) bit of its
\* neighbour.
C1_WallCoherentAfterGeneration ==
    DfsFinished => WallCoherent(grid, width, height)

\* a pass that opened a wall of a maze with open walls has returned
C1_Witness ==
    /\ PassFinished
    /\ opened # {}
    /\ width > 1 /\ height > 1
    /\ OpenWalls(grid, width, height) # {}
    /\ WallCoherent(grid, width, height)

\* C2: after DFS generation, during and after the extra-connectivity pass,
\* every outer border wall is closed: North on the top row, South on the
\* bottom row, West on the left column, East on the right column.
C2_BordersClosedAfterGeneration ==
    DfsFinished => BordersClosed(grid, width, height)

\* a pass has carved next to the border of a maze of two rows or more
C2_Witness ==
    /\ PassFinished
    /\ \E p \in opened : p[1][1] = 0 \/ p[2][1] = width - 1
    /\ height > 1
    /\ BordersClosed(grid, width, height)

\* C3: with an empty forbidden set, after generation the connectivity BFS
\* from the entry visits every one of the width * height cells, each once.
C3_AllCellsReachable ==
    (DfsFinished /\ forbidden_cells = {}) =>
        LET seen == bfs_connection_validator(grid, width, height, entry,
                                             forbidden_cells)
        IN /\ Range(seen) = Cells(width, height)
           /\ Len(seen) = width * height

\* a maze of 2 x 3 or 3 x 2 cells was generated without forbidden cells
C3_Witness ==
    /\ JustGenerated
    /\ forbidden_cells = {}
    /\ width > 1 /\ height > 1 /\ width * height >= 6
    /\ Len(bfs_connection_validator(grid, width, height, entry, {})) >= 6

\* C4: after DFS generation alone the open walls form a spanning tree of
\* the set R of cells reachable from the entry in the grid without the
\* forbidden cells: |R| - 1 shared walls are open, all between cells of R,
\* any two cells of R are joined by exactly one simple open path, and every
\* cell outside R has mask 15.
C4_SpanningTree ==
    JustGenerated =>
        LET R == GridReach(width, height, entry, forbidden_cells)
            open == OpenWalls(grid, width, height)
        IN /\ Cardinality(open) = Cardinality(R) - 1
           /\ \A p \in open : p[1] \in R /\ p[2] \in R
           /\ \A a \in R : OnePathToEach(grid, width, height, a, R)
           /\ \A c \in Cells(width, height) \ R : grid[c] = 15

\* a perfect maze was generated around a forbidden cell that cuts off part
\* of the grid
C4_Witness ==
    /\ JustGenerated
    /\ forbidden_cells # {}
    /\ LET R == GridReach(width, height, entry, forbidden_cells)
       IN /\ Cardinality(R) >= 3
          /\ Cells(width, height) \ (R \cup forbidden_cells) # {}
          /\ Cardinality(OpenWalls(grid, width, height)) = Cardinality(R) - 1

(***************************************************************************)
(* The solver on its own: it is applied to the maze that any set of        *)
(* carve_coordinate calls leaves of a fresh Maze, with any forbidden set   *)
(* of at most MaxForbidden cells that leaves out the entry.                *)
(***************************************************************************)
RECURSIVE carve_all(_, _, _, _)
\* the grid after carve_coordinate was called on every pair of walls
carve_all(g, w, h, walls) ==
    IF walls = {} THEN g
    ELSE LET p == CHOOSE q \in walls : TRUE
         IN carve_all(carve_coordinate(g, w, h, p[1], p[2]).grid, w, h,
                      walls \ {p})

SolverInit ==
    /\ \E inp \in SmallInputs :
          /\ width = inp.width
          /\ height = inp.height
          /\ entry = inp.entry
          /\ exit = inp.exit
          /\ forbidden_cells = inp.forbidden_cells
    /\ \E walls \in SUBSET SharedWalls(width, height) :
          grid = carve_all(FreshGrid(width, height), width, height, walls)
    /\ perfect = TRUE
    /\ stream = <<>>
    /\ draws = 0
    /\ pc = "solve"
    /\ stack = <<>>
    /\ visited = {}
    /\ candidate_cells = <<>>
    /\ extra_paths = 0
    /\ paths = 0
    /\ solved = NotSolved
    /\ path_str = Unbound
    /\ call = NoCall
    /\ output_file = NoFile
    /\ raised = "none"
    /\ run = 1
    /\ dfs_grid = grid
    /\ pass_start = grid
    /\ opened = {}
    /\ first_dfs = grid
    /\ first_final = grid

\* what a call from outside the pipeline leaves alone besides the maze
pipeline_locals ==
    <<perfect, stream, draws, stack, visited, candidate_cells,
      extra_paths, paths, solved, path_str, run, dfs_grid, pass_start,
      opened, first_dfs, first_final>>

(***************************************************************************)
(* What is done with a path of the solver: the UI loop shows it, which     *)
(* replays its direction string from the entry (render_ascii calls         *)
(* _cells_on_path), and a user of MazeGenerator converts it with           *)
(* coords_to_directions.                                                   *)
(***************************************************************************)
\* command p of run_ui_loop followed by the rendering of the path
ShowPath ==
    /\ pc = "done"
    /\ call.op # "_cells_on_path"
    /\ call' = [op |-> "_cells_on_path", args |-> <<entry, path_str>>,
                before |-> <<>>,
                result |-> _cells_on_path(entry, path_str, width, height)]
    /\ UNCHANGED <<width, height, entry, exit, forbidden_cells, grid, pc,
                   pipeline_locals, output_file, raised>>

\* coords_to_directions(coords) on the path the solver returned
DirectionsCall ==
    /\ pc = "done"
    /\ call.op # "coords_to_directions"
    /\ call' = [op |-> "coords_to_directions", args |-> <<solved.path>>,
                before |-> <<>>,
                result |-> coords_to_directions(solved.path)]
    /\ UNCHANGED <<width, height, entry, exit, forbidden_cells, grid, pc,
                   pipeline_locals, output_file, raised>>

SolverNext == Solve \/ ShowPath \/ DirectionsCall

SolverSpec == SolverInit /\ [][SolverNext]_vars

RECURSIVE WithinSteps(_, _, _, _, _, _)
\* the cells reached from the set seen in at most k open-wall steps that
\* stay out of the forbidden cells
WithinSteps(g, w, h, forb, seen, k) ==
    IF k <= 0 THEN seen
    ELSE WithinSteps(g, w, h, forb,
             seen \cup (UNION {OpenNeighbours(g, w, h, c) : c \in seen} \ forb),
             k - 1)

\* C5: a path the solver returns is a shortest one: the exit is not within
\* fewer open-wall steps of the entry, forbidden cells avoided, than the
\* path takes.
C5_PathIsShortest ==
    solved.status = "path" =>
        exit \notin WithinSteps(grid, width, height, forbidden_cells, {entry},
                                Len(solved.path) - 2)

\* the solver returned a path of a maze in which two or more simple open
\* paths lead from the entry to the exit
C5_Witness ==
    /\ solved.status = "path"
    /\ Len(solved.path) >= 3
    /\ Cardinality({p \in SimplePaths(grid, width, height, entry) :
                        p[Len(p)] = exit}) >= 2

\* C6: a path the solver returns starts at the entry, ends at the exit,
\* repeats no cell, stays in bounds, holds no forbidden cell after the
\* entry, and each of its steps is one unit step in one axis through a wall
\* whose bit is clear in the mask of the cell the step leaves.
C6_PathIsValid ==
    solved.status = "path" =>
        LET path == solved.path
        IN /\ Len(path) >= 1
           /\ path[1] = entry
           /\ path[Len(path)] = exit
           /\ \A i \in 1 .. Len(path) : \A j \in 1 .. Len(path) :
                 path[i] = path[j] => i = j
           /\ \A i \in 1 .. Len(path) : path[i] \in Cells(width, height)
           /\ \A i \in 2 .. Len(path) : path[i] \notin forbidden_cells
           /\ \A i \in 1 .. Len(path) - 1 :
                 \E d \in Directions :
                    /\ path[i + 1] = Step(path[i], d)
                    /\ Bit(grid[path[i]], DIR_BIT_VALUE[d]) = 0

\* the solver returned a path of four cells or more that turns, in a maze
\* with an open wall into a forbidden cell
C6_Witness ==
    /\ solved.status = "path"
    /\ Len(solved.path) >= 4
    /\ \E i \in 1 .. Len(solved.path) - 1 : solved.path[i][1] # entry[1]
    /\ \E i \in 1 .. Len(solved.path) - 1 : solved.path[i][2] # entry[2]
    /\ \E c \in Cells(width, height) :
          OpenNeighbours(grid, width, height, c) \cap forbidden_cells # {}

\* C7: the solver raises Unreachable exactly when no sequence of open-wall
\* steps through non-forbidden cells leads from the entry to the exit, and
\* returns a path in every other case.
C7_UnreachableIffNoRoute ==
    solved.status # "none" =>
        /\ solved.status \in {"Unreachable", "path"}
        /\ solved.status = "Unreachable" <=>
              exit \notin OpenReach(grid, width, height, entry,
                                    forbidden_cells)

\* the solver raised Unreachable on a maze whose exit is not forbidden and
\* can be reached through open walls if forbidden cells are entered
C7_Witness ==
    /\ solved.status = "Unreachable"
    /\ exit \notin forbidden_cells
    /\ forbidden_cells # {}
    /\ exit \in OpenReach(grid, width, height, entry, {})

\* C8: a second run of DFS generation on the same width, height, entry,
\* exit, seed and forbidden set leaves the wall masks the first run left.
C8_DfsDeterministic ==
    (run >= 2 /\ DfsFinished) => dfs_grid = first_dfs

\* a second run has generated a maze in which the first run had to choose
\* among several eligible neighbours
C8_Witness ==
    /\ run >= 2
    /\ JustGenerated
    /\ width > 1 /\ height > 1
    /\ Cardinality(OpenWalls(dfs_grid, width, height)) >= 3
    /\ dfs_grid = first_dfs

\* the walls a pass opened between a grid before and a grid after
NewlyOpen(before, after, w, h) == OpenWalls(after, w, h) \ OpenWalls(before, w, h)

\* C9: a second run of generation and extra-connectivity pass with the same
\* seed and inputs ends with the grid of the first run, the pass having
\* opened the same walls.
C9_PassDeterministic ==
    (run >= 2 /\ PassFinished) =>
        /\ grid = first_final
        /\ NewlyOpen(dfs_grid, grid, width, height)
              = NewlyOpen(first_dfs, first_final, width, height)

\* a second run has finished a pass that had several candidates to choose
\* from
C9_Witness ==
    /\ run >= 2
    /\ PassFinished
    /\ opened # {}
    /\ Len(candidate_cells) >= 2
    /\ grid = first_final

\* the candidate count of C10: the East- and South-facing pairs whose
\* shared wall is closed in g and neither of whose cells is forbidden
ClosedFreePairs(g, w, h, forb) ==
    {p \in SharedWalls(w, h) :
        /\ Bit(g[p[1]], FacingBit(p)) = 1
        /\ p[1] \notin forb
        /\ p[2] \notin forb}

\* C10: the pass opens exactly min(max(1, floor(width * height / 25)), C)
\* walls, C being the number of closed East/South pairs without forbidden
\* cell at its start; the opened walls are distinct pairs, and the pass
\* does not fail, with C = 0 it opens nothing.
C10_PassOpensClampedCount ==
    (~ perfect /\ pc \in {"solve", "done", "failed"}) =>
        LET C == Cardinality(ClosedFreePairs(pass_start, width, height,
                                             forbidden_cells))
            K == Min(Max(1, (width * height) \div 25), C)
        IN /\ pc = "failed" => solved.status = "Unreachable"
           /\ paths = K
           /\ Cardinality(opened) = K
           /\ NewlyOpen(pass_start, grid, width, height) = opened

\* a pass on a maze of 50 cells or more with three candidates or more has
\* opened two walls
C10_Witness ==
    /\ ~ perfect /\ pc = "solve"
    /\ width * height >= 50
    /\ Cardinality(ClosedFreePairs(pass_start, width, height,
                                   forbidden_cells)) >= 3
    /\ Cardinality(opened) = 2
    /\ paths = 2

\* the two wall bits, as <<cell, bit>>, that face each other across a
\* shared wall
PairBits(pair) ==
    {<<pair[1], FacingBit(pair)>>,
     <<pair[2], IF FacingBit(pair) = 2 THEN 8 ELSE 1>>}

\* multiple_path_maze is in its loop or has returned
PassRunning == ~ perfect /\ pc \in {"pass_loop", "solve", "done", "failed"}

\* C11: every wall the extra-connectivity pass opened lies between an
\* East/South-adjacent pair whose wall was closed when the pass started and
\* neither of whose cells is forbidden; no bit that was clear before the
\* pass is set, and every bit that does not belong to a selected pair is as
\* it was.
C11_PassFrame ==
    PassRunning =>
        /\ opened \subseteq ClosedFreePairs(pass_start, width, height,
                                            forbidden_cells)
        /\ \A c \in Cells(width, height) : \A b \in {1, 2, 4, 8} :
              /\ Bit(pass_start[c], b) = 0 => Bit(grid[c], b) = 0
              /\ (\A p \in opened : <<c, b>> \notin PairBits(p)) =>
                    Bit(grid[c], b) = Bit(pass_start[c], b)

\* a pass has opened a wall of a maze that had open walls already and a
\* closed wall next to a forbidden cell
C11_Witness ==
    /\ PassFinished
    /\ opened # {}
    /\ OpenWalls(pass_start, width, height) # {}
    /\ \E p \in SharedWalls(width, height) :
          /\ p[1] \in forbidden_cells \/ p[2] \in forbidden_cells
          /\ ~ (p[1] \in forbidden_cells /\ p[2] \in forbidden_cells)
          /\ Bit(grid[p[1]], FacingBit(p)) = 1

(***************************************************************************)
(* carve_coordinate on its own: a caller holds a fresh Maze of at most     *)
(* MaxArea cells and calls carve_coordinate again and again with any two   *)
(* coordinates of the grid or of the ring of cells around it.              *)
(***************************************************************************)
\* the width and height of the mazes of at most MaxArea cells
SmallDims ==
    { d \in (1 .. MaxArea) \X (1 .. MaxArea) :
         d[1] * d[2] <= MaxArea /\ d[1] * d[2] >= 2 }

CarveInit ==
    /\ \E d \in SmallDims :
          /\ width = d[1]
          /\ height = d[2]
          /\ entry = <<0, 0>>
          /\ exit = <<d[1] - 1, d[2] - 1>>
    /\ forbidden_cells = {}
    /\ grid = FreshGrid(width, height)
    /\ perfect = TRUE
    /\ stream = <<>>
    /\ draws = 0
    /\ pc = "api"
    /\ stack = <<>>
    /\ visited = {}
    /\ candidate_cells = <<>>
    /\ extra_paths = 0
    /\ paths = 0
    /\ solved = NotSolved
    /\ path_str = Unbound
    /\ call = NoCall
    /\ output_file = NoFile
    /\ raised = "none"
    /\ run = 1
    /\ dfs_grid = grid
    /\ pass_start = grid
    /\ opened = {}
    /\ first_dfs = grid
    /\ first_final = grid

\* one call carve_coordinate(maze, coord1, coord2)
CarveCall ==
    /\ pc = "api"
    /\ \E coord1 \in (-1 .. width) \X (-1 .. height) :
       \E coord2 \in (-1 .. width) \X (-1 .. height) :
          LET carved == carve_coordinate(grid, width, height, coord1, coord2)
          IN /\ grid' = carved.grid
             /\ call' = [op |-> "carve_coordinate",
                         args |-> <<coord1, coord2>>,
                         before |-> grid,
                         result |-> carved.err]
    /\ pc' = "called"
    /\ UNCHANGED <<width, height, entry, exit, forbidden_cells,
                   pipeline_locals, output_file, raised>>

\* the caller has looked at the outcome of its call and goes on with the
\* maze as the call left it
CallerContinues ==
    /\ pc = "called"
    /\ pc' = "api"
    /\ call' = NoCall
    /\ UNCHANGED <<width, height, entry, exit, forbidden_cells, grid,
                   pipeline_locals, output_file, raised>>

CarveNext == CarveCall \/ CallerContinues

CarveSpec == CarveInit /\ [][CarveNext]_vars

\* the bit of the mask of c1 for the wall that faces the adjacent cell c2
BitToward(c1, c2) ==
    IF c2[1] = c1[1] + 1 THEN 2
    ELSE IF c2[1] = c1[1] - 1 THEN 8
    ELSE IF c2[2] = c1[2] - 1 THEN 1
    ELSE 4

\* the bit of the wall opposite to the wall of bit b
OppositeBit(b) ==
    IF b = 1 THEN 4 ELSE IF b = 4 THEN 1 ELSE IF b = 2 THEN 8 ELSE 2

\* the last call was carve_coordinate and it returned
CarveSucceeded == call.op = "carve_coordinate" /\ call.result = "none"

\* the last call was carve_coordinate and it raised
CarveFailed == call.op = "carve_coordinate" /\ call.result # "none"

\* C12: a successful carve_coordinate(c1, c2) clears the bit of the
\* direction from c1 to c2 in the mask of c1 and the bit of the opposite
\* direction in the mask of c2; every other bit of the grid is as before,
\* and a carve of a wall that is open already changes nothing.
C12_CarveFrame ==
    CarveSucceeded =>
        LET c1 == call.args[1]
            c2 == call.args[2]
            b == BitToward(c1, c2)
        IN /\ \A c \in Cells(width, height) : \A k \in {1, 2, 4, 8} :
                 Bit(grid[c], k) =
                    IF (c = c1 /\ k = b) \/ (c = c2 /\ k = OppositeBit(b))
                    THEN 0
                    ELSE Bit(call.before[c], k)
           /\ \A c \in Cells(width, height) : grid[c] \in 0 .. 15
           /\ (Bit(call.before[c1], b) = 0
                  /\ Bit(call.before[c2], OppositeBit(b)) = 0)
                 => grid = call.before

\* a carve toward the North or the West has opened a closed wall of a grid
\* that had an open wall on each of the two cells already
C12_Witness ==
    /\ CarveSucceeded
    /\ BitToward(call.args[1], call.args[2]) \in {1, 8}
    /\ call.before[call.args[1]] # 15
    /\ call.before[call.args[2]] # 15
    /\ grid # call.before

\* C13: a carve_coordinate call that fails, with OutOfBounds for a
\* coordinate outside the grid or with NotAdjacent for two coordinates that
\* are not at Manhattan distance 1, leaves the mask of every cell as it
\* was; the error is OutOfBounds exactly when a coordinate is outside the
\* grid.
C13_FailedCarveChangesNothing ==
    CarveFailed =>
        LET c1 == call.args[1]
            c2 == call.args[2]
            outside == c1 \notin Cells(width, height)
                          \/ c2 \notin Cells(width, height)
        IN /\ grid = call.before
           /\ call.result = IF outside THEN "OutOfBounds" ELSE "NotAdjacent"
           /\ ~ outside =>
                 Abs(c1[1] - c2[1]) + Abs(c1[2] - c2[2]) # 1

\* a carve from a cell with open walls to the cell outside the grid next to
\* it has failed
C13_Witness ==
    /\ CarveFailed
    /\ call.result = "OutOfBounds"
    /\ call.args[1] \in Cells(width, height)
    /\ call.before[call.args[1]] # 15
    /\ Abs(call.args[1][1] - call.args[2][1])
          + Abs(call.args[1][2] - call.args[2][2]) = 1

(***************************************************************************)
(* The Maze constructor on its own: it is called with any height and width *)
(* from -1 to MaxSide and any entry and exit with coordinates in that      *)
(* range.  Before the call there is no maze.                               *)
(***************************************************************************)
MazeInit ==
    /\ width = 0
    /\ height = 0
    /\ entry = NoCoord
    /\ exit = NoCoord
    /\ forbidden_cells = {}
    /\ grid = GridOf(<<>>)
    /\ perfect \in BOOLEAN
    /\ stream = <<>>
    /\ draws = 0
    /\ pc = "api"
    /\ stack = <<>>
    /\ visited = {}
    /\ candidate_cells = <<>>
    /\ extra_paths = 0
    /\ paths = 0
    /\ solved = NotSolved
    /\ path_str = Unbound
    /\ call = NoCall
    /\ output_file = NoFile
    /\ raised = "none"
    /\ run = 1
    /\ dfs_grid = grid
    /\ pass_start = grid
    /\ opened = {}
    /\ first_dfs = grid
    /\ first_final = grid

\* one call Maze(h, w, en, ex): with an error no maze comes to be
MazeCall ==
    /\ pc = "api"
    /\ \E h \in -1 .. MaxSide, w \in -1 .. MaxSide :
       \E en \in (-1 .. MaxSide) \X (-1 .. MaxSide) :
       \E ex \in (-1 .. MaxSide) \X (-1 .. MaxSide) :
          LET made == Maze(h, w, en, ex)
          IN /\ call' = [op |-> "Maze", args |-> <<h, w, en, ex>>,
                         before |-> <<>>, result |-> made]
             /\ IF made.err = "none"
                THEN /\ width' = w
                     /\ height' = h
                     /\ entry' = en
                     /\ exit' = ex
                     /\ grid' = GridOf(made.rows)
                ELSE UNCHANGED <<width, height, entry, exit, grid>>
    /\ pc' = "called"
    /\ UNCHANGED <<forbidden_cells, pipeline_locals, output_file, raised>>

MazeNext == MazeCall

MazeSpec == MazeInit /\ [][MazeNext]_vars

\* C14: Maze(height, width, entry, exit) fails when width <= 0 or
\* height <= 0 (InvalidDimension), when entry or exit lies outside
\* [0, width) x [0, height) (OutOfBounds) or when entry equals exit
\* (DegenerateEndpoints), and only then; in every other case it succeeds
\* with height rows of width cells, every cell 15.
C14_MazeConstructor ==
    call.op = "Maze" =>
        LET h == call.args[1]
            w == call.args[2]
            en == call.args[3]
            ex == call.args[4]
            baddim == w <= 0 \/ h <= 0
            inside(c) == 0 <= c[1] /\ c[1] < w /\ 0 <= c[2] /\ c[2] < h
            outside == ~ inside(en) \/ ~ inside(ex)
            made == call.result
        IN /\ made.err # "none" <=> (baddim \/ outside \/ en = ex)
           /\ made.err = "InvalidDimension" => baddim
           /\ made.err = "OutOfBounds" => outside
           /\ made.err = "DegenerateEndpoints" => en = ex
           /\ made.err = "none" =>
                 /\ Len(made.rows) = h
                 /\ \A y \in 1 .. h :
                       /\ Len(made.rows[y]) = w
                       /\ \A x \in 1 .. w : made.rows[y][x] = 15
                 /\ width = w /\ height = h /\ entry = en /\ exit = ex
                 /\ DOMAIN grid = Cells(w, h)
                 /\ \A c \in Cells(w, h) : grid[c] = 15

\* the constructor has refused an entry equal to the exit inside a grid of
\* two rows of three cells
C14_Witness ==
    /\ call.op = "Maze"
    /\ call.result.err = "DegenerateEndpoints"
    /\ call.args[1] = 2
    /\ call.args[2] = 3
    /\ call.args[3] = <<2, 1>>

(***************************************************************************)
(* The stencil marker on its own: it is called on a fresh maze of 14 to    *)
(* MaxStencilWidth columns and 12 to MaxStencilHeight rows, of 20 x 20 or  *)
(* of 5 x 5 cells, whose entry and exit are corners of the grid or cells   *)
(* of the middle of it, StencilRing cells around the 7 x 5 box included.   *)
(***************************************************************************)
StencilDims ==
    ((14 .. MaxStencilWidth) \X (12 .. MaxStencilHeight))
       \cup {<<20, 20>>, <<5, 5>>}

\* the corners of the grid and the cells of its middle
StencilEndpoints(w, h) ==
    {<<0, 0>>, <<w - 1, 0>>, <<0, h - 1>>, <<w - 1, h - 1>>}
    \cup (Cells(w, h) \cap
            (((w \div 2) - 3 - StencilRing .. (w \div 2) + 3 + StencilRing)
               \X ((h \div 2) - 2 - StencilRing .. (h \div 2) + 2 + StencilRing)))

StencilInit ==
    /\ \E d \in StencilDims :
          /\ width = d[1]
          /\ height = d[2]
          /\ \E en \in StencilEndpoints(d[1], d[2]) :
             \E ex \in StencilEndpoints(d[1], d[2]) \ {en} :
                entry = en /\ exit = ex
    /\ forbidden_cells = {}
    /\ grid = FreshGrid(width, height)
    /\ perfect = TRUE
    /\ stream = <<>>
    /\ draws = 0
    /\ pc = "api"
    /\ stack = <<>>
    /\ visited = {}
    /\ candidate_cells = <<>>
    /\ extra_paths = 0
    /\ paths = 0
    /\ solved = NotSolved
    /\ path_str = Unbound
    /\ call = NoCall
    /\ output_file = NoFile
    /\ raised = "none"
    /\ run = 1
    /\ dfs_grid = grid
    /\ pass_start = grid
    /\ opened = {}
    /\ first_dfs = grid
    /\ first_final = grid

\* one call forty_two_marking(maze); get_state keeps the set it returns as
\* the forbidden set (line 165)
StencilCall ==
    /\ pc = "api"
    /\ LET marked == forty_two_marking(height, width, entry, exit)
       IN /\ call' = [op |-> "forty_two_marking", args |-> <<>>,
                      before |-> <<>>, result |-> marked]
          /\ forbidden_cells' = marked.cells
    /\ pc' = "called"
    /\ UNCHANGED <<width, height, entry, exit, grid, pipeline_locals, output_file, raised>>

StencilNext == StencilCall

StencilSpec == StencilInit /\ [][StencilNext]_vars

\* the stamp, row by row: 1 for a cell of the shape
StampPicture ==
    << <<1, 0, 0, 0, 1, 1, 1>>,
       <<1, 0, 0, 0, 0, 0, 1>>,
       <<1, 1, 1, 0, 1, 1, 1>>,
       <<0, 0, 1, 0, 1, 0, 0>>,
       <<0, 0, 1, 0, 1, 1, 1>> >>

\* the cells of the stamp with its top-left corner at <<x0, y0>>
StampAt(x0, y0) ==
    {<<x0 + x - 1, y0 + y - 1>> :
        <<x, y>> \in {c \in (1 .. 7) \X (1 .. 5) : StampPicture[c[2]][c[1]] = 1}}

\* forty_two_marking was called
Marked == call.op = "forty_two_marking"

\* C15: forty_two_marking returns the empty set when height < 13 or
\* width < 15; otherwise, when neither endpoint is in it, it returns the 18
\* cells of the 7 x 5 shape with its top-left corner at
\* (width // 2 - 3, height // 2 - 2), all of them in bounds.
C15_StencilShape ==
    Marked =>
        LET shape == StampAt((width \div 2) - 3, (height \div 2) - 2)
            cells == call.result.cells
        IN /\ (height < 13 \/ width < 15) => cells = {}
           /\ (height >= 13 /\ width >= 15 /\ entry \notin shape
                  /\ exit \notin shape) =>
                 /\ cells = shape
                 /\ Cardinality(cells) = 18
                 /\ cells \subseteq Cells(width, height)

\* the marker has returned a set around (10, 10) for the maze of 20 x 20
\* cells entered at (0, 0) and left at (19, 19)
C15_Witness ==
    /\ Marked
    /\ width = 20 /\ height = 20
    /\ entry = <<0, 0>> /\ exit = <<19, 19>>
    /\ call.result.cells # {}
    /\ call.result.cells \subseteq (7 .. 13) \X (8 .. 12)

\* C16: when entry, exit or both lie inside the stencil, forty_two_marking
\* reports the conflict and returns the empty set without raising; a set it
\* returns never holds the entry or the exit.
C16_StencilSkipsOnConflict ==
    Marked =>
        LET shape == StampAt((width \div 2) - 3, (height \div 2) - 2)
            big == height >= 13 /\ width >= 15
            marked == call.result
        IN /\ (big /\ (entry \in shape \/ exit \in shape)) =>
                 /\ marked.cells = {}
                 /\ marked.warning =
                       IF entry \in shape /\ exit \in shape THEN "both"
                       ELSE IF entry \in shape THEN "entry" ELSE "exit"
           /\ marked.warning # "none" =>
                 big /\ (entry \in shape \/ exit \in shape)
           /\ entry \notin marked.cells
           /\ exit \notin marked.cells
           /\ forbidden_cells = marked.cells

\* the marker has skipped the stencil of a maze of 15 x 13 cells whose exit
\* alone is a cell of the shape
C16_Witness ==
    /\ Marked
    /\ width = 15 /\ height = 13
    /\ call.result.warning = "exit"
    /\ call.result.cells = {}
    /\ exit \in StampAt(4, 4)
    /\ entry \notin StampAt(4, 4)

(***************************************************************************)
(* The pipeline with the forbidden set of the stencil marker: one call of  *)
(* get_state on every maze of at most MaxArea cells, with the forbidden    *)
(* set forty_two_marking returns, which is empty, or one cell forced by a  *)
(* caller, and on the maze of 15 x 13 cells, the smallest that takes the   *)
(* stencil, entered at a corner or at a cell of the 7 x 5 box of the stamp *)
(* and left at the last corner or at the centre.  On the large maze the stream of each seed is laid down     *)
(* beforehand.                                                             *)
(***************************************************************************)
\* the first n values of the random stream of a seed
Tape(seed, n) ==
    [i \in 1 .. n |-> (i * i * (seed + 1) + 7 * i + (i \div 5) + seed) % 12]

StampedInputs ==
    { [width |-> 15, height |-> 13, entry |-> en, exit |-> ex,
       forbidden_cells |-> forty_two_marking(13, 15, en, ex).cells] :
          <<en, ex>> \in
              { t \in ({<<0, 0>>, <<14, 0>>, <<0, 12>>, <<14, 12>>}
                           \cup ((4 .. 10) \X (4 .. 8)))
                        \X {<<14, 12>>, <<7, 6>>} :
                    t[1] # t[2] } }

StampedInit ==
    /\ \/ /\ \E inp \in {i \in SmallInputs :
                                Cardinality(i.forbidden_cells) <= 1} :
                /\ width = inp.width
                /\ height = inp.height
                /\ entry = inp.entry
                /\ exit = inp.exit
                /\ forbidden_cells = inp.forbidden_cells
          /\ stream = <<>>
       \/ /\ \E inp \in StampedInputs :
                /\ width = inp.width
                /\ height = inp.height
                /\ entry = inp.entry
                /\ exit = inp.exit
                /\ forbidden_cells = inp.forbidden_cells
          /\ \E seed \in 1 .. MaxSeeds :
                stream = Tape(seed, 2 * width * height)
    /\ perfect \in BOOLEAN
    /\ grid = FreshGrid(width, height)
    /\ draws = 0
    /\ pc = "generate"
    /\ stack = <<>>
    /\ visited = {}
    /\ candidate_cells = <<>>
    /\ extra_paths = 0
    /\ paths = 0
    /\ solved = NotSolved
    /\ path_str = Unbound
    /\ call = NoCall
    /\ output_file = NoFile
    /\ raised = "none"
    /\ run = 1
    /\ dfs_grid = grid
    /\ pass_start = grid
    /\ opened = {}
    /\ first_dfs = grid
    /\ first_final = grid

StampedNext ==
    \/ GenerateStart
    \/ DfsCarve
    \/ DfsBacktrack
    \/ DfsReturn
    \/ PassStart
    \/ PassStep
    \/ PassReturn
    \/ Solve

StampedSpec == StampedInit /\ [][StampedNext]_vars

RECURSIVE Flood(_, _, _, _, _, _)
\* the cells reached from the set seen through open walls and cells out of
\* avoid, frontier being the cells of seen whose neighbours were not looked
\* at yet
Flood(g, w, h, avoid, seen, frontier) ==
    IF frontier = {} THEN seen
    ELSE LET more == (UNION {OpenNeighbours(g, w, h, c) : c \in frontier})
                        \ (avoid \cup seen)
         IN Flood(g, w, h, avoid, seen \cup more, more)

\* the forbidden set is the one forty_two_marking returns for the maze
FromStencil ==
    forbidden_cells = forty_two_marking(height, width, entry, exit).cells

\* C17: in the pipeline, with the forbidden set forty_two_marking returned,
\* the exit is reachable from the entry after generation and the solver
\* does not fail with Unreachable; Unreachable arises only with a forbidden
\* set forced by a caller that cuts the exit off from the entry.
C17_PipelineNeverUnreachable ==
    /\ (DfsFinished /\ FromStencil) =>
          /\ exit \in Flood(grid, width, height, forbidden_cells, {entry},
                            {entry})
          /\ solved.status # "Unreachable"
    /\ solved.status = "Unreachable" =>
          /\ ~ FromStencil
          /\ exit \notin GridReach(width, height, entry, forbidden_cells)

\* the solver has returned a path from a corner to the centre of a maze of
\* 15 x 13 cells that holds the stencil
C17_Witness ==
    /\ pc = "done"
    /\ width = 15 /\ height = 13
    /\ Cardinality(forbidden_cells) = 18
    /\ exit = <<7, 6>>
    /\ entry = <<0, 0>>
    /\ solved.status = "path"
    /\ Len(solved.path) >= 14

RECURSIVE Replay(_, _, _)
\* the coordinates visited from coordinate at by the letters of str from
\* letter i on, each letter moving by its DIR_MOVE_DELTA
Replay(at, str, i) ==
    IF i > Len(str) THEN <<at>>
    ELSE <<at>> \o Replay(Step(at, str[i]), str, i + 1)

\* the path was shown by the UI loop
PathShown == call.op = "_cells_on_path"

\* C18: for a path the solver returned, the replay of its direction string
\* from the entry, letter by letter with the movement delta of each letter,
\* visits the coordinates of the path in the same order and ends at the
\* exit; the cells the UI loop marks are those of the path.
C18_DirectionStringReplays ==
    solved.status = "path" =>
        /\ path_str # Unbound
        /\ Replay(entry, path_str, 1) = solved.path
        /\ Replay(entry, path_str, 1)[Len(path_str) + 1] = exit
        /\ PathShown =>
              call.result = [err |-> "none", cells |-> Range(solved.path)]

\* the UI loop has shown a path of four steps or more that goes North and
\* West somewhere
C18_Witness ==
    /\ PathShown
    /\ call.result.err = "none"
    /\ Len(path_str) >= 4
    /\ \E i \in 1 .. Len(path_str) : path_str[i] = "N"
    /\ \E i \in 1 .. Len(path_str) : path_str[i] = "W"
    /\ Cardinality(call.result.cells) = Len(path_str) + 1

\* coords_to_directions was called on the path
DirectionsCalled == call.op = "coords_to_directions"

\* C19: the conversion of a path the solver returned to a direction string
\* does not fail with NonAdjacentStep; the string has len(path) - 1 letters,
\* all of them N, E, S or W, and coords_to_directions gives the string
\* _coords_to_path gives.
C19_ConversionNeverFails ==
    solved.status = "path" =>
        /\ pc = "done"
        /\ path_str # Unbound
        /\ Len(path_str) = Len(solved.path) - 1
        /\ \A i \in 1 .. Len(path_str) : path_str[i] \in {"N", "E", "S", "W"}
        /\ DirectionsCalled =>
              call.result = [err |-> "none", str |-> path_str]

\* both converters have given the one-letter string of a path of two cells
C19_Witness ==
    /\ DirectionsCalled
    /\ Len(solved.path) = 2
    /\ call.result.err = "none"
    /\ Len(call.result.str) = 1
    /\ call.result.str = path_str

(***************************************************************************)
(* The validators and the solver called from outside the pipeline, on a    *)
(* maze of at most MaxValidatedArea cells that a caller has carved with    *)
(* carve_coordinate and in which it may have written one mask itself, with *)
(* at most one forbidden cell.                                             *)
(***************************************************************************)
\* the grids a caller gets from g by writing at most one mask
OneWrite(g) ==
    {g} \cup {[g EXCEPT ![c] = m] : <<c, m>> \in (DOMAIN g) \X (0 .. 15)}

ValidatorInit ==
    /\ \E d \in {e \in SmallDims : e[1] * e[2] <= MaxValidatedArea} :
          /\ width = d[1]
          /\ height = d[2]
          /\ entry \in Cells(d[1], d[2])
          /\ exit = IF entry = <<d[1] - 1, d[2] - 1>> THEN <<0, 0>>
                    ELSE <<d[1] - 1, d[2] - 1>>
    /\ forbidden_cells \in
          {{}} \cup {{c} : c \in Cells(width, height) \ {entry}}
    /\ \E walls \in SUBSET SharedWalls(width, height) :
          grid \in OneWrite(carve_all(FreshGrid(width, height), width,
                                      height, walls))
    /\ perfect = TRUE
    /\ stream = <<>>
    /\ draws = 0
    /\ pc = "api"
    /\ stack = <<>>
    /\ visited = {}
    /\ candidate_cells = <<>>
    /\ extra_paths = 0
    /\ paths = 0
    /\ solved = NotSolved
    /\ path_str = Unbound
    /\ call = NoCall
    /\ output_file = NoFile
    /\ raised = "none"
    /\ run = 1
    /\ dfs_grid = grid
    /\ pass_start = grid
    /\ opened = {}
    /\ first_dfs = grid
    /\ first_final = grid

\* the maze and the forbidden set as a call finds them
MazeSnapshot ==
    [grid |-> grid, width |-> width, height |-> height, entry |-> entry,
     exit |-> exit, forbidden_cells |-> forbidden_cells]

\* one call wall_validator(maze)
WallValidatorCall ==
    /\ pc = "api"
    /\ LET checked == wall_validator(grid, width, height)
       IN /\ call' = [op |-> "wall_validator", args |-> <<>>,
                      before |-> MazeSnapshot,
                      result |-> [err |-> checked.err, at |-> checked.at]]
          /\ grid' = checked.grid
    /\ pc' = "called"
    /\ UNCHANGED <<width, height, entry, exit, forbidden_cells,
                   pipeline_locals, output_file, raised>>

\* one call closed_borders_validator(maze)
ClosedBordersValidatorCall ==
    /\ pc = "api"
    /\ LET checked == closed_borders_validator(grid, width, height)
       IN /\ call' = [op |-> "closed_borders_validator", args |-> <<>>,
                      before |-> MazeSnapshot,
                      result |-> [err |-> checked.err,
                                  direction |-> checked.direction,
                                  at |-> checked.at]]
          /\ grid' = checked.grid
    /\ pc' = "called"
    /\ UNCHANGED <<width, height, entry, exit, forbidden_cells,
                   pipeline_locals, output_file, raised>>

\* one call bfs_connection_validator(maze, forbidden_cells): it has no
\* raise and no return statement, and assigns to its two lists only
ConnectionValidatorCall ==
    /\ pc = "api"
    /\ call' = [op |-> "bfs_connection_validator", args |-> <<>>,
                before |-> MazeSnapshot,
                result |-> [err |-> "none",
                            visited_coords |->
                                bfs_connection_validator(grid, width, height,
                                    entry, forbidden_cells)]]
    /\ pc' = "called"
    /\ UNCHANGED <<width, height, entry, exit, forbidden_cells, grid,
                   pipeline_locals, output_file, raised>>

\* one call bfs_shortest_path_solver(maze, forbidden_cells): it assigns to
\* its queue, its visited set, its parent map and its backtrace only
SolverCall ==
    /\ pc = "api"
    /\ call' = [op |-> "bfs_shortest_path_solver", args |-> <<>>,
                before |-> MazeSnapshot,
                result |-> bfs_shortest_path_solver(grid, width, height,
                               entry, exit, forbidden_cells)]
    /\ pc' = "called"
    /\ UNCHANGED <<width, height, entry, exit, forbidden_cells, grid,
                   pipeline_locals, output_file, raised>>

ValidatorNext ==
    \/ WallValidatorCall
    \/ ClosedBordersValidatorCall
    \/ ConnectionValidatorCall
    \/ SolverCall

ValidatorSpec == ValidatorInit /\ [][ValidatorNext]_vars

\* the last call was one of the read-only passes
ReadOnlyCalled ==
    call.op \in {"wall_validator", "closed_borders_validator",
                 "bfs_connection_validator", "bfs_shortest_path_solver"}

\* C20: bfs_shortest_path_solver, wall_validator, closed_borders_validator
\* and bfs_connection_validator do not change the maze: after any of them
\* has returned or raised, every cell mask, the width, the height, the
\* entry, the exit and the forbidden set are what they were before the call.
C20_ValidatorsReadOnly ==
    ReadOnlyCalled =>
        /\ grid = call.before.grid
        /\ width = call.before.width
        /\ height = call.before.height
        /\ entry = call.before.entry
        /\ exit = call.before.exit
        /\ forbidden_cells = call.before.forbidden_cells

\* wall_validator has raised on a maze with a mismatched wall and left the
\* mismatch in place
C20_Witness ==
    /\ call.op = "wall_validator"
    /\ call.result.err = "WallMismatch"
    /\ ~ WallCoherent(grid, width, height)
    /\ grid = call.before.grid
    /\ width > 1 /\ height > 1

(***************************************************************************)
(* wall_validator and closed_borders_validator on a maze whose masks a     *)
(* caller has written itself: every grid of masks 0 .. 15 on 2 x 2 and on  *)
(* the one-row and one-column mazes of at most MaxAnyGridArea cells.       *)
(***************************************************************************)
AnyGridDims ==
    {d \in SmallDims : d[1] * d[2] <= MaxAnyGridArea} \cup {<<2, 2>>}

AnyGridInit ==
    /\ \E d \in AnyGridDims :
          /\ width = d[1]
          /\ height = d[2]
          /\ entry = <<0, 0>>
          /\ exit = <<d[1] - 1, d[2] - 1>>
    /\ forbidden_cells = {}
    /\ grid \in [Cells(width, height) -> 0 .. 15]
    /\ perfect = TRUE
    /\ stream = <<>>
    /\ draws = 0
    /\ pc = "api"
    /\ stack = <<>>
    /\ visited = {}
    /\ candidate_cells = <<>>
    /\ extra_paths = 0
    /\ paths = 0
    /\ solved = NotSolved
    /\ path_str = Unbound
    /\ call = NoCall
    /\ output_file = NoFile
    /\ raised = "none"
    /\ run = 1
    /\ dfs_grid = grid
    /\ pass_start = grid
    /\ opened = {}
    /\ first_dfs = grid
    /\ first_final = grid

AnyGridNext == WallValidatorCall \/ ClosedBordersValidatorCall

AnyGridSpec == AnyGridInit /\ [][AnyGridNext]_vars

\* the interior adjacencies whose two facing bits differ
IncoherentAdjacencies(g, w, h) ==
    {p \in SharedWalls(w, h) :
        Bit(g[p[1]], FacingBit(p)) # Bit(g[p[2]], OppositeBit(FacingBit(p)))}

\* C21: wall_validator raises the WallMismatch error exactly when some
\* interior adjacency is incoherent (East bit against the West bit of the
\* right neighbour, South bit against the North bit of the cell below), on
\* any grid of masks 0 .. 15; on a coherent grid it returns normally.  The
\* cell it names is the left or upper cell of an incoherent adjacency.
C21_WallValidatorExact ==
    call.op = "wall_validator" =>
        LET bad == IncoherentAdjacencies(grid, width, height)
        IN /\ call.result.err \in {"none", "WallMismatch"}
           /\ call.result.err = "WallMismatch" <=> bad # {}
           /\ call.result.err = "none" <=> WallCoherent(grid, width, height)
           /\ call.result.err = "WallMismatch" =>
                 \E p \in bad : p[1] = call.result.at

\* wall_validator has raised on a 2 x 2 grid whose only incoherent
\* adjacency is a South one with the upper wall open and the lower closed
C21_Witness ==
    /\ call.op = "wall_validator"
    /\ call.result.err = "WallMismatch"
    /\ width = 2 /\ height = 2
    /\ IncoherentAdjacencies(grid, width, height)
          = {<<<<1, 0>>, <<1, 1>>>>}
    /\ Bit(grid[<<1, 0>>], 4) = 0

\* the border walls in the order the validator reads them: top row, left
\* column, bottom row, right column
BorderScan(w, h) ==
    [x \in 1 .. w |-> <<"N", <<x - 1, 0>>>>]
       \o [y \in 1 .. h |-> <<"W", <<0, y - 1>>>>]
       \o [x \in 1 .. w |-> <<"S", <<x - 1, h - 1>>>>]
       \o [y \in 1 .. h |-> <<"E", <<w - 1, y - 1>>>>]

\* the places of the scan at which the border wall is open
OpenBorderPlaces(g, w, h) ==
    {i \in 1 .. 2 * (w + h) :
        Bit(g[BorderScan(w, h)[i][2]],
            DIR_BIT_VALUE[BorderScan(w, h)[i][1]]) = 0}

\* C22: closed_borders_validator raises the OpenBorderWall error exactly
\* when some top-row cell lacks its North bit, some left-column cell its
\* West bit, some bottom-row cell its South bit or some right-column cell
\* its East bit, and the direction and coordinate it names are those of the
\* first violation of its scan; otherwise it returns normally.
C22_ClosedBordersExact ==
    call.op = "closed_borders_validator" =>
        LET open == OpenBorderPlaces(grid, width, height)
        IN /\ call.result.err \in {"none", "OpenBorderWall"}
           /\ call.result.err = "OpenBorderWall" <=> open # {}
           /\ call.result.err = "none" <=> BordersClosed(grid, width, height)
           /\ open # {} =>
                 \E i \in open :
                    /\ \A j \in open : i <= j
                    /\ call.result.direction = BorderScan(width, height)[i][1]
                    /\ call.result.at = BorderScan(width, height)[i][2]

\* closed_borders_validator has named the West wall of the lower left cell
\* of a 2 x 2 grid whose bottom row and right column are open as well
C22_Witness ==
    /\ call.op = "closed_borders_validator"
    /\ call.result.err = "OpenBorderWall"
    /\ call.result.direction = "W"
    /\ call.result.at = <<0, 1>>
    /\ width = 2 /\ height = 2
    /\ Bit(grid[<<0, 1>>], 4) = 0
    /\ Bit(grid[<<1, 0>>], 2) = 0

\* the cells a connectivity check is meant to reach: all but the forbidden
IntendedCells == Cells(width, height) \ forbidden_cells

\* C23 (as claimed): bfs_connection_validator raises ValueError if not all
\* cells are reachable from the entry by open-wall steps that avoid the
\* forbidden cells, and returns normally only when every intended cell is
\* reachable.
C23_ConnectionValidatorRaises ==
    call.op = "bfs_connection_validator" =>
        (call.result.err = "none" =>
            IntendedCells
               \subseteq OpenReach(grid, width, height, entry,
                                   forbidden_cells))

(***************************************************************************)
(* write_output called on its own: a caller hands it an object with a grid *)
(* of at most MaxWrittenSide rows and columns that has at most one fault   *)
(* (a row missing or added, a row too short or too long, a cell below 0 or *)
(* above 15) and a string of at most MaxPathLen characters; the file is    *)
(* absent or left by an earlier run, and opening it may fail.              *)
(***************************************************************************)
\* what an earlier run left in the output file
OldFile == <<<<"F">>, <<>>, <<"0", ",", "0">>, <<"0", ",", "0">>, <<>>>>

\* a well-formed list of h rows of w cells, and the lists one fault away
FaultyRows(w, h, m) ==
    LET rows == [y \in 1 .. h |-> [x \in 1 .. w |-> m]]
    IN {rows, SubSeq(rows, 1, h - 1), Append(rows, rows[1])}
          \cup {[rows EXCEPT ![y] = Tail(@)] : y \in 1 .. h}
          \cup {[rows EXCEPT ![y] = Append(@, m)] : y \in 1 .. h}
          \cup {[rows EXCEPT ![c[2]][c[1]] = c[3]] :
                   c \in (1 .. w) \X (1 .. h) \X {-1, 16}}

RECURSIVE StringsUpTo(_, _)
StringsUpTo(chars, n) ==
    IF n = 0 THEN {<<>>}
    ELSE StringsUpTo(chars, n - 1)
            \cup {Append(str, ch) :
                     str \in StringsUpTo(chars, n - 1), ch \in chars}

WriterInit ==
    /\ width = 1
    /\ height = 2
    /\ entry = <<0, 0>>
    /\ exit = <<0, 1>>
    /\ forbidden_cells = {}
    /\ grid = FreshGrid(width, height)
    /\ perfect = TRUE
    /\ stream = <<>>
    /\ draws = 0
    /\ pc = "api"
    /\ stack = <<>>
    /\ visited = {}
    /\ candidate_cells = <<>>
    /\ extra_paths = 0
    /\ paths = 0
    /\ solved = NotSolved
    /\ path_str = Unbound
    /\ call = NoCall
    /\ output_file \in {NoFile, OldFile}
    /\ raised = "none"
    /\ run = 1
    /\ dfs_grid = grid
    /\ pass_start = grid
    /\ opened = {}
    /\ first_dfs = grid
    /\ first_final = grid

\* one call write_output(filename, maze, entry, exit_pos, path)
WriteOutputCall ==
    /\ pc = "api"
    /\ \E w \in 1 .. MaxWrittenSide, h \in 1 .. MaxWrittenSide,
          m \in {0, 9, 15}, disk_error \in BOOLEAN :
          \E rows \in FaultyRows(w, h, m),
             path \in StringsUpTo({"N", "E", "S", "W", "n", " "},
                                  MaxPathLen) :
             LET written == write_output(output_file, rows, w, h, <<0, 0>>,
                                         <<w - 1, h - 1>>, path, disk_error)
             IN /\ call' = [op |-> "write_output",
                            args |-> [grid |-> rows, width |-> w,
                                      height |-> h, path |-> path,
                                      disk_error |-> disk_error],
                            before |-> output_file,
                            result |-> [err |-> written.err]]
                /\ output_file' = written.file
    /\ pc' = "called"
    /\ UNCHANGED <<width, height, entry, exit, forbidden_cells, grid, raised,
                   perfect, stream, draws, stack, visited, candidate_cells,
                   extra_paths, paths, solved, path_str, run, dfs_grid,
                   pass_start, opened, first_dfs, first_final>>

WriterNext == WriteOutputCall

WriterSpec == WriterInit /\ [][WriterNext]_vars

\* the grid handed to the writer has a fault, or the string a foreign
\* character
MalformedOutput ==
    \/ Len(call.args.grid) # call.args.height
    \/ \E y \in 1 .. Len(call.args.grid) :
          \/ Len(call.args.grid[y]) # call.args.width
          \/ \E x \in 1 .. Len(call.args.grid[y]) :
                call.args.grid[y][x] \notin 0 .. 15
    \/ \E i \in 1 .. Len(call.args.path) :
          call.args.path[i] \notin {"N", "E", "S", "W"}

IntText(n) == IF n < 0 THEN <<"-">> \o Decimal(0 - n) ELSE Decimal(n)

\* a KEY=VALUE line
Pair(key, value) == [kind |-> "pair", key |-> key, value |-> value]

\* texts of the WIDTH line, of the HEIGHT line and of ENTRY and EXIT
WidthTexts ==
    {IntText(n) : n \in -1 .. MaxConfigNumber} \cup {<<"x">>, <<" ", "2">>}

HeightTexts == {IntText(n) : n \in 1 .. MaxConfigNumber}

CoordTexts ==
    {a \o <<",">> \o b :
        a, b \in {IntText(n) : n \in -1 .. MaxConfigNumber} \cup {<<"a">>}}
       \cup {<<"0">>, <<"0", ",", "0", ",", "0">>}

\* the rest of a file: the OUTPUT_FILE, PERFECT and SEED lines and the
\* lines after them, and whether the file can be opened
ConfigTails ==
    LET out == Pair("OUTPUT_FILE", <<"maze.txt">>)
        yes == Pair("PERFECT", Chars("true"))
        T(exists, lines) == [exists |-> exists, lines |-> lines]
    IN {T(TRUE, <<out, yes>>),
        T(TRUE, <<out, yes, Pair("SEED", <<>>)>>),
        T(TRUE, <<out, yes, Pair("SEED", <<"4", "2">>)>>),
        T(TRUE, <<out, yes, Pair("seed", <<"-", "1">>)>>),
        T(TRUE, <<out, yes, Pair("SEED", <<"4", ".", "2">>)>>),
        T(TRUE, <<out, Pair("PERFECT", <<"N", "o">>),
                  [kind |-> "comment", key |-> "", value |-> <<>>],
                  [kind |-> "blank", key |-> "", value |-> <<>>]>>),
        T(TRUE, <<out, Pair("PERFECT", <<"maybe">>)>>),
        T(TRUE, <<Pair("OUTPUT_FILE", <<" ">>), yes>>),
        T(TRUE, <<yes>>),
        T(TRUE, <<out, yes, Pair("height", <<"0">>)>>),
        T(TRUE, <<out, yes,
                  [kind |-> "no_equals", key |-> "", value |-> <<>>]>>),
        T(TRUE, <<out, yes, Pair("", <<"1", "0">>)>>),
        T(FALSE, <<out, yes>>)}

\* the file with the given WIDTH, HEIGHT, ENTRY and EXIT texts and rest
ConfigFile(wt, ht, en, ex, tail) ==
    [exists |-> tail.exists,
     lines |-> <<Pair("WIDTH", wt), Pair("HEIGHT", ht), Pair("ENTRY", en),
                 Pair("EXIT", ex)>> \o tail.lines]

\* main(argv) has been called with the path of a configuration file
ConfigInit ==
    /\ width = 0
    /\ height = 0
    /\ entry = NoCoord
    /\ exit = NoCoord
    /\ forbidden_cells = {}
    /\ grid = GridOf(<<>>)
    /\ perfect = TRUE
    /\ stream = <<>>
    /\ draws = 0
    /\ pc = "main"
    /\ stack = <<>>
    /\ visited = {}
    /\ candidate_cells = <<>>
    /\ extra_paths = 0
    /\ paths = 0
    /\ solved = NotSolved
    /\ path_str = Unbound
    /\ \E wt \in WidthTexts, ht \in HeightTexts, en \in CoordTexts,
          ex \in CoordTexts, tail \in ConfigTails :
          call = [op |-> "main", args |-> ConfigFile(wt, ht, en, ex, tail),
                  before |-> <<>>, result |-> <<>>]
    /\ output_file = NoFile
    /\ raised = "none"
    /\ run = 1
    /\ dfs_grid = grid
    /\ pass_start = grid
    /\ opened = {}
    /\ first_dfs = grid
    /\ first_final = grid

\* main lines 118-123: cfg = load_config(config_path); an OSError or
\* ValueError is printed and main returns 1
LoadConfigCall ==
    /\ pc = "main"
    /\ LET loaded == load_config(call.args)
       IN /\ call' = [op |-> "load_config", args |-> call.args,
                      before |-> <<>>, result |-> loaded]
          /\ pc' = IF loaded.err = "none" THEN "get_state" ELSE "exit_1"
    /\ UNCHANGED <<width, height, entry, exit, forbidden_cells, grid,
                   pipeline_locals, output_file, raised>>

\* get_state lines 154-160: the Maze is constructed from the Config and a
\* seed of None becomes 0
MazeFromConfig ==
    /\ pc = "get_state"
    /\ LET cfg == call.result.cfg
           made == Maze(cfg.height, cfg.width, cfg.entry, cfg.exit)
       IN /\ call' = [op |-> "Maze", args |-> cfg, before |-> <<>>,
                      result |-> [err |-> made.err,
                                  seed |-> IF cfg.seed = <<>> THEN 0
                                           ELSE cfg.seed[1]]]
          /\ IF made.err = "none"
             THEN /\ width' = cfg.width
                  /\ height' = cfg.height
                  /\ entry' = cfg.entry
                  /\ exit' = cfg.exit
                  /\ grid' = GridOf(made.rows)
                  /\ perfect' = cfg.perfect
                  /\ pc' = "stencil"
                  /\ UNCHANGED raised
             ELSE /\ raised' = "ValueError"
                  /\ pc' = "failed"
                  /\ UNCHANGED <<width, height, entry, exit, grid, perfect>>
    /\ UNCHANGED <<forbidden_cells, stream, draws, stack, visited,
                   candidate_cells, extra_paths, paths, solved, path_str,
                   run, dfs_grid, pass_start, opened, first_dfs, first_final,
                   output_file>>

ConfigNext == LoadConfigCall \/ MazeFromConfig

ConfigSpec == ConfigInit /\ [][ConfigNext]_vars

\* the number a line of the file gives for a key, read digit by digit from
\* the last line that sets the key
LineNumbers(file, key) ==
    LET set == {i \in 1 .. Len(file.lines) :
                   file.lines[i].kind = "pair"
                      /\ file.lines[i].key \in {key, "height", "seed"}
                      /\ upper(file.lines[i].key) = key}
    IN IF set = {} THEN <<>>
       ELSE split_commas(file.lines[CHOOSE i \in set :
                                        \A j \in set : j <= i].value, <<>>)

GeneratorInit ==
    /\ \E d \in {e \in SmallDims : e[1] * e[2] <= MaxValidatedArea} :
          /\ width = d[1]
          /\ height = d[2]
          /\ entry = <<0, 0>>
          /\ exit = <<d[1] - 1, d[2] - 1>>
    /\ forbidden_cells = {}
    /\ grid = GridOf(<<>>)
    /\ perfect \in BOOLEAN
    /\ stream = <<>>
    /\ draws = 0
    /\ pc = "idle"
    /\ stack = <<>>
    /\ visited = {}
    /\ candidate_cells = <<>>
    /\ extra_paths = 0
    /\ paths = 0
    /\ solved = NotSolved
    /\ path_str = Unbound
    /\ call = NoCall
    /\ output_file = NoFile
    /\ raised = "none"
    /\ run = 1
    /\ dfs_grid = grid
    /\ pass_start = grid
    /\ opened = {}
    /\ first_dfs = grid
    /\ first_final = grid

\* generate lines 163-176: a fresh Maze, _path and _forbidden reset, the
\* stencil, and the entry into dfs_maze_generator
GenerateProperty ==
    /\ pc \in {"idle", "solve_called"}
    /\ run <= MaxRuns
    /\ run' = run + 1
    /\ grid' = GridOf(Maze(height, width, entry, exit).rows)
    /\ solved' = NotSolved
    /\ forbidden_cells' = forty_two_marking(height, width, entry, exit).cells
    /\ draws' = 0
    /\ stack' = <<entry>>
    /\ visited' = {entry}
    /\ pc' = "dfs"
    /\ call' = [op |-> "generate", args |-> <<>>, before |-> <<>>,
                result |-> [err |-> "running"]]
    /\ UNCHANGED <<width, height, entry, exit, perfect, stream, pass_locals,
                   path_str, output_file, raised, dfs_grid, first_run>>

\* dfs_maze_generator is called with (maze, forbidden, seed) where get_state
\* passes (maze, seed, forbidden): it may raise TypeError on the set it
\* receives for a seed or on the integer it receives for a set
GenerateRaises ==
    /\ pc = "dfs"
    /\ stack = <<entry>>
    /\ visited = {entry}
    /\ stack' = <<>>
    /\ pc' = "idle"
    /\ call' = [call EXCEPT !.result = [err |-> "TypeError"]]
    /\ UNCHANGED <<maze_fields, grid, stream, draws, visited, pass_locals,
                   solved, path_str, output_file, raised, run, dfs_grid,
                   first_run>>

\* generate lines 177-185: the DFS has returned; with perfect = False
\* multiple_path_maze(self._maze) lacks its second argument and raises
\* TypeError, else the maze is returned
GenerateReturn ==
    /\ pc = "dfs"
    /\ stack = <<>>
    /\ dfs_grid' = grid
    /\ pc' = "idle"
    /\ call' = [call EXCEPT !.result =
                   [err |-> IF perfect THEN "none" ELSE "TypeError"]]
    /\ UNCHANGED <<maze_fields, grid, stream, draws, stack, visited,
                   pass_locals, solved, path_str, output_file, raised, run,
                   first_run>>

\* one call solve_maze_path()
SolveMazePathCall ==
    /\ pc \in {"idle", "solve_called"}
    /\ LET outcome == solve_maze_path(grid # GridOf(<<>>), solved)
       IN /\ call' = [op |-> "solve_maze_path", args |-> <<>>,
                      before |-> <<>>, result |-> [err |-> outcome.err]]
          /\ solved' = outcome._path
    /\ pc' = "solve_called"
    /\ UNCHANGED <<maze_fields, grid, stream, draws, stack, visited,
                   pass_locals, path_str, output_file, raised, run, dfs_grid,
                   first_run>>

\* one read of the property path
PathCall ==
    /\ pc \in {"idle", "solve_called"}
    /\ call' = [op |-> "path", args |-> <<>>, before |-> <<>>,
                result |-> MazeGenerator_path(solved)]
    /\ UNCHANGED <<maze_fields, grid, stream, draws, pc, stack, visited,
                   pass_locals, solved, path_str, output_file, raised, run,
                   dfs_grid, first_run>>

GeneratorNext ==
    \/ GenerateProperty
    \/ DfsCarve
    \/ DfsBacktrack
    \/ GenerateRaises
    \/ GenerateReturn
    \/ SolveMazePathCall
    \/ PathCall

GeneratorSpec == GeneratorInit /\ [][GeneratorNext]_vars

\* C26 (as claimed): MazeGenerator.path returns the last solved coordinate
\* path, the sequence from entry to exit that the most recent solve_maze_path
\* gave, and raises RuntimeError only when solve_maze_path has not been
\* called since the last generate.
C26_PathReturnsLastSolve ==
    (call.op = "path" /\ grid # GridOf(<<>>)) =>
        /\ call.result.err = "RuntimeError" => pc # "solve_called"
        /\ call.result.err = "none" =>
              /\ solved.status = "path"
              /\ call.result.value = solved.path
              /\ solved.path[1] = entry
              /\ solved.path[Len(solved.path)] = exit

(***************************************************************************)
(* get_state as main runs it: the forbidden set is the one the stencil     *)
(* marker returns (empty on the mazes of at most MaxArea cells), the run   *)
(* ends with the write of the output file, which the file system accepts   *)
(* or refuses, and command r of the UI loop runs get_state again.          *)
(***************************************************************************)
GetStateInputs ==
    {i \in SmallInputs : i.forbidden_cells = {}}
       \cup { [width |-> 15, height |-> 13, entry |-> t[1], exit |-> t[2],
               forbidden_cells |->
                   forty_two_marking(13, 15, t[1], t[2]).cells] :
                 t \in {<<0, 0>>, <<4, 4>>, <<14, 0>>}
                          \X {<<14, 12>>, <<7, 6>>, <<10, 8>>} }

GetStateInit ==
    /\ \E inp \in GetStateInputs :
          /\ width = inp.width
          /\ height = inp.height
          /\ entry = inp.entry
          /\ exit = inp.exit
          /\ forbidden_cells = inp.forbidden_cells
    /\ IF width * height <= MaxArea THEN stream = <<>>
       ELSE \E seed \in 1 .. MaxSeeds :
               stream = Tape(seed, 2 * width * height)
    /\ perfect \in BOOLEAN
    /\ grid = FreshGrid(width, height)
    /\ draws = 0
    /\ pc = "generate"
    /\ stack = <<>>
    /\ visited = {}
    /\ candidate_cells = <<>>
    /\ extra_paths = 0
    /\ paths = 0
    /\ solved = NotSolved
    /\ path_str = Unbound
    /\ call = NoCall
    /\ output_file = NoFile
    /\ raised = "none"
    /\ run = 1
    /\ dfs_grid = grid
    /\ pass_start = grid
    /\ opened = {}
    /\ first_dfs = grid
    /\ first_final = grid

GetStateNext ==
    \/ GenerateStart
    \/ DfsCarve
    \/ DfsBacktrack
    \/ DfsReturn
    \/ PassStart
    \/ PassStep
    \/ PassReturn
    \/ Solve
    \/ SolveDiskError
    \/ Regenerate

GetStateSpec == GetStateInit /\ [][GetStateNext]_vars

FacingForbidden ==
    {t \in UNION {{<<Step(c, DIRECTIONS[i]),
                     OppositeBit(DIR_BIT_VALUE[DIRECTIONS[i]])>> :
                        i \in 1 .. Len(DIRECTIONS)} : c \in forbidden_cells} :
        t[1] \in Cells(width, height)}

\* C28: at every step of the pipeline every forbidden cell has mask 15 and
\* the wall of every cell next to a forbidden cell that faces it is closed;
\* the generation has visited and stacked no forbidden cell and the
\* extra-connectivity pass has neither listed nor opened a pair that
\* contains one.
C28_ForbiddenCellsStaySolid ==
    /\ \A c \in forbidden_cells : grid[c] = 15
    /\ \A t \in FacingForbidden : Bit(grid[t[1]], t[2]) = 1
    /\ visited \cap forbidden_cells = {}
    /\ \A i \in 1 .. Len(stack) : stack[i] \notin forbidden_cells
    /\ \A i \in 1 .. Len(candidate_cells) :
          /\ candidate_cells[i][1] \notin forbidden_cells
          /\ candidate_cells[i][2] \notin forbidden_cells
    /\ \A p \in opened :
          p[1] \notin forbidden_cells /\ p[2] \notin forbidden_cells

\* a run on the maze that holds the stencil has returned: the generation
\* carved every cell next to the stencil and the pass opened walls
C28_Witness ==
    /\ pc = "done"
    /\ Cardinality(forbidden_cells) = Len(cells_to_be_blocked)
    /\ opened # {}
    /\ \A t \in FacingForbidden :
          t[1] \notin forbidden_cells => grid[t[1]] # 15

\* C29: from a fresh Maze, after every sequence of carve_coordinate calls,
\* those that fail with OutOfBounds or NotAdjacent included, every mask is
\* in 0..15, the two masks of every shared wall agree on it and every
\* outer border wall is closed.
C29_CarveKeepsGridSound ==
    /\ \A c \in Cells(width, height) : grid[c] \in 0 .. 15
    /\ WallCoherent(grid, width, height)
    /\ BordersClosed(grid, width, height)

\* a call has failed, leaving the grid as it was, on a maze in which
\* earlier calls opened two walls or more
C29_Witness ==
    /\ CarveFailed
    /\ call.before = grid
    /\ Cardinality(OpenWalls(grid, width, height)) >= 2

(***************************************************************************)
(* dfs_maze_generator alone, on the small inputs of the pipeline.  The     *)
(* loop is a run-to-completion loop of one thread: an iteration that can   *)
(* be taken is taken, which is the weak fairness of DfsSpec.               *)
(***************************************************************************)
DfsNext ==
    \/ GenerateStart
    \/ DfsCarve
    \/ DfsBacktrack
    \/ DfsReturn

\* dfs_maze_generator is entered on a maze of at most MaxDfsArea cells
DfsInit == Init /\ width * height <= MaxDfsArea /\ perfect

DfsSpec == DfsInit /\ [][DfsNext]_vars /\ WF_vars(DfsNext)

\* the cells the generation has to visit
DfsReach == GridReach(width, height, entry, forbidden_cells)

\* the iterations the loop has still to make at most: two for each cell
\* not yet visited, a push and a pop, and a pop for each cell on the stack
DfsVariant(seen, stk) ==
    2 * (Cardinality(DfsReach) - Cardinality(seen)) + Len(stk)

\* while the loop runs no cell is twice on the stack, the stack holds
\* visited cells only, one cell was marked visited by each push, and only
\* cells to be visited were
DfsLoopInvariant ==
    pc = "dfs" =>
        /\ \A i, j \in 1 .. Len(stack) : stack[i] = stack[j] => i = j
        /\ Range(stack) \subseteq visited
        /\ Cardinality(visited) = draws + 1
        /\ visited \subseteq DfsReach
        /\ DfsVariant(visited, stack) >= 0

\* an iteration pushes a cell never visited before, next to the stack top
\* and not forbidden, after carving the wall between the two, or it pops
\* the stack and changes nothing else; either way one iteration less is
\* left
DfsIteration ==
    (pc = "dfs" /\ stack # <<>>) =>
        /\ pc' = "dfs"
        /\ DfsVariant(visited', stack') = DfsVariant(visited, stack) - 1
        /\ LET current == stack[Len(stack)]
           IN \/ \E c \in Cells(width, height) \ (visited \cup forbidden_cells) :
                    /\ Abs(c[1] - current[1]) + Abs(c[2] - current[2]) = 1
                    /\ stack' = Append(stack, c)
                    /\ visited' = visited \cup {c}
                    /\ grid' = carve_coordinate(grid, width, height, current,
                                                c).grid
                    /\ Bit(grid'[current], BitToward(current, c)) = 0
                    /\ Bit(grid'[c], BitToward(c, current)) = 0
              \/ /\ stack' = SubSeq(stack, 1, Len(stack) - 1)
                 /\ visited' = visited
                 /\ grid' = grid

\* the loop has ended: the stack is empty and the visited cells are the
\* cells reachable from the entry without crossing forbidden cells
DfsEnded ==
    /\ pc \notin {"generate", "dfs"}
    /\ stack = <<>>
    /\ visited = DfsReach

\* C30: the DFS generation terminates on every maze, stream of draws and
\* forbidden set without the entry: each iteration pushes a never visited
\* cell after carving to it from the stack top, or pops the stack; no cell
\* is marked visited or pushed twice; and the loop ends, with the stack
\* empty and exactly the cells reachable from the entry without crossing
\* forbidden cells visited.
C30_DfsTerminates ==
    /\ []DfsLoopInvariant
    /\ [][DfsIteration]_vars
    /\ [](pc \notin {"generate", "dfs"} => DfsEnded)
    /\ (pc = "generate") ~> DfsEnded

\* the generation has returned from a maze in which a forbidden cell cuts
\* cells off: it visited three cells or more and left the others alone
C30_Witness ==
    /\ DfsEnded
    /\ forbidden_cells # {}
    /\ Cardinality(visited) >= 3
    /\ visited # Cells(width, height) \ forbidden_cells
    /\ draws = Cardinality(visited) - 1

====
